---- MODULE Spec2Model ----
(***************************************************************************)
(* Ticket intake, classification consumption, auto-resolution decision and *)
(* resolution learning of the POWERGRID helpdesk backend.                  *)
(*                                                                         *)
(* Python strings that the code lower-cases or searches are modelled as    *)
(* sequences of one-character strings; confidences and sentiment scores    *)
(* are integers in hundredths (0.8 is 80); None is the value None.         *)
(***************************************************************************)
EXTENDS Integers, Sequences, FiniteSets, TLC

VARIABLES
  \* repeated runs of the keyword classifier and its surroundings
  fbPc, fbText, fbRunText, fbOut, fbSeen, fbApiUp, fbCalls,
  \* one call of GeminiAIService.classify_ticket
  clPc, clText, clOutcome, clResult,
  \* one call of TicketIngestionService._check_auto_resolution
  arPc, arClass, arSolutions, arResult,
  \* one chatbot intake (TicketIngestionService.ingest_chatbot_query)
  chPc, chText, chStoreOk, chClass, chSolutions, chAuto, chResult, tickets,
  \* the knowledge store, the resolution history and record_resolution calls
  articles, articles0, resolutions, rrPc, rrArgs, rrLocal, rrInserted, rrRet,
  rrOverlap,
  \* one call of a ranking stage of KnowledgeBaseService.find_solutions
  ksPc, ksClass, ksContext, ksLookup, ksIn, ksOut,
  \* record_resolution calls made one after another: the learned patterns,
  \* the call in progress and what its learning step did
  patterns, lnPc, lnArgs, lnOutcome,
  \* intake calls of the source adapters: the clock in seconds, and per call
  \* its position, its payload, its local variables and what it returned
  inClock, inPc, inData, inLocal, inRet,
  \* the socket service: its two module-level dicts in insertion order and
  \* the last event handled
  active_connections, ticket_rooms, skEvent

fbVars == <<fbPc, fbText, fbRunText, fbOut, fbSeen, fbApiUp, fbCalls>>
clVars == <<clPc, clText, clOutcome, clResult>>
arVars == <<arPc, arClass, arSolutions, arResult>>
chVars == <<chPc, chText, chStoreOk, chClass, chSolutions, chAuto, chResult, tickets>>
rrVars ==
  <<articles, articles0, resolutions, rrPc, rrArgs, rrLocal, rrInserted, rrRet,
    rrOverlap>>
ksVars == <<ksPc, ksClass, ksContext, ksLookup, ksIn, ksOut>>
lnVars == <<patterns, lnPc, lnArgs, lnOutcome>>
inVars == <<inClock, inPc, inData, inLocal, inRet>>
skVars == <<active_connections, ticket_rooms, skEvent>>
vars == <<fbVars, clVars, arVars, chVars, rrVars, ksVars, lnVars, inVars, skVars>>

None == "None"

\* An optional value whose present form is not a string (a number, a text
\* as a character sequence) is <<>> when None and <<v>> when v.
Absent == <<>>

Some(v) == <<v>>

\* the value of a result that has not been produced yet
Pending == [pending |-> TRUE]

-----------------------------------------------------------------------------
(* Bounds of the model.                                                    *)

\* most words in a generated query text
MaxWords == 2
\* most runs of the keyword classifier in one behaviour
MaxCalls == 3
\* most candidates in a ranked solution list
MaxSols == 2
\* number of concurrent record_resolution calls
NProcs == 2
\* the intake calls of the source adapters that may be in flight at once
Intakes == {1, 2}

-----------------------------------------------------------------------------
(* Strings.                                                                *)

\* the lower-case letter of each upper-case letter
LowerOf ==
  ("A" :> "a") @@ ("B" :> "b") @@ ("C" :> "c") @@ ("D" :> "d") @@
  ("E" :> "e") @@ ("F" :> "f") @@ ("G" :> "g") @@ ("H" :> "h") @@
  ("I" :> "i") @@ ("J" :> "j") @@ ("K" :> "k") @@ ("L" :> "l") @@
  ("M" :> "m") @@ ("N" :> "n") @@ ("O" :> "o") @@ ("P" :> "p") @@
  ("Q" :> "q") @@ ("R" :> "r") @@ ("S" :> "s") @@ ("T" :> "t") @@
  ("U" :> "u") @@ ("V" :> "v") @@ ("W" :> "w") @@ ("X" :> "x") @@
  ("Y" :> "y") @@ ("Z" :> "z")

\* str.lower() on one character
LowerChar(c) == IF c \in DOMAIN LowerOf THEN LowerOf[c] ELSE c

\* str.lower()
RECURSIVE Lower(_)
Lower(s) ==
  IF Len(s) = 0 THEN <<>> ELSE <<LowerChar(Head(s))>> \o Lower(Tail(s))

\* Python's  k in t  on strings: k occurs in t as a contiguous substring
IsSubstr(k, t) ==
  \E i \in 0..(Len(t) - Len(k)) : \A j \in 1..Len(k) : t[i + j] = k[j]

-----------------------------------------------------------------------------
(* Query texts: up to MaxWords words of Vocabulary separated by blanks.    *)

Vocabulary ==
  << <<"a","c","c","e","s","s">>,
     <<"P","r","i","n","t","e","r">>,
     <<"r","e","s","e","t">>,
     <<"U","R","G","E","N","T">>,
     <<"a","s","a","p">>,
     <<"h","e","l","l","o">> >>


RECURSIVE JoinWords(_)
JoinWords(ws) ==
  IF Len(ws) = 0 THEN <<>>
  ELSE IF Len(ws) = 1 THEN ws[1]
  ELSE ws[1] \o <<" ">> \o JoinWords(Tail(ws))

WordSeqs ==
  UNION {[1..n -> 1..Len(Vocabulary)] : n \in 0..MaxWords}

WordTexts ==
  {JoinWords([i \in 1..Len(ws) |-> Vocabulary[ws[i]]]) : ws \in WordSeqs}

-----------------------------------------------------------------------------
(* GeminiAIService: the keyword classifier.                                *)

\* self.categories, in dictionary (insertion) order
categories ==
  << [name |-> "VPN",
      keywords |-> << <<"c","o","n","n","e","c","t","i","o","n">>,
                     <<"a","c","c","e","s","s">>,
                     <<"a","u","t","h","e","n","t","i","c","a","t","i","o","n">>,
                     <<"s","l","o","w">>,
                     <<"d","i","s","c","o","n","n","e","c","t">> >>],
     [name |-> "Password",
      keywords |-> << <<"r","e","s","e","t">>,
                     <<"f","o","r","g","o","t">>,
                     <<"e","x","p","i","r","e","d">>,
                     <<"c","h","a","n","g","e">>,
                     <<"u","n","l","o","c","k">> >>],
     [name |-> "Email",
      keywords |-> << <<"q","u","o","t","a">>,
                     <<"s","y","n","c">>,
                     <<"a","c","c","e","s","s">>,
                     <<"a","t","t","a","c","h","m","e","n","t">>,
                     <<"d","e","l","i","v","e","r","y">> >>],
     [name |-> "Hardware",
      keywords |-> << <<"l","a","p","t","o","p">>,
                     <<"d","e","s","k","t","o","p">>,
                     <<"m","o","n","i","t","o","r">>,
                     <<"k","e","y","b","o","a","r","d">>,
                     <<"m","o","u","s","e">>,
                     <<"p","r","i","n","t","e","r">> >>],
     [name |-> "Software",
      keywords |-> << <<"i","n","s","t","a","l","l","a","t","i","o","n">>,
                     <<"u","p","d","a","t","e">>,
                     <<"l","i","c","e","n","s","e">>,
                     <<"c","r","a","s","h">>,
                     <<"e","r","r","o","r">> >>],
     [name |-> "Network",
      keywords |-> << <<"i","n","t","e","r","n","e","t">>,
                     <<"w","i","f","i">>,
                     <<"c","o","n","n","e","c","t","i","v","i","t","y">>,
                     <<"s","l","o","w">>,
                     <<"t","i","m","e","o","u","t">> >>],
     [name |-> "Access Control",
      keywords |-> << <<"p","e","r","m","i","s","s","i","o","n","s">>,
                     <<"f","o","l","d","e","r">>,
                     <<"d","r","i","v","e">>,
                     <<"a","p","p","l","i","c","a","t","i","o","n">>,
                     <<"s","y","s","t","e","m">> >>],
     [name |-> "Printer",
      keywords |-> << <<"p","r","i","n","t">>,
                     <<"s","c","a","n">>,
                     <<"j","a","m">>,
                     <<"q","u","a","l","i","t","y">>,
                     <<"d","r","i","v","e","r">> >>],
     [name |-> "GLPI",
      keywords |-> << <<"a","s","s","e","t">>,
                     <<"i","n","v","e","n","t","o","r","y">>,
                     <<"t","r","a","c","k","i","n","g">>,
                     <<"u","p","d","a","t","e">>,
                     <<"s","y","n","c">> >>],
     [name |-> "SAP",
      keywords |-> << <<"s","o","l","m","a","n">>,
                     <<"t","r","a","n","s","a","c","t","i","o","n">>,
                     <<"l","o","g","i","n">>,
                     <<"p","e","r","f","o","r","m","a","n","c","e">>,
                     <<"e","r","r","o","r">> >>] >>

urgent_words ==
  << <<"u","r","g","e","n","t">>,
     <<"c","r","i","t","i","c","a","l">>,
     <<"e","m","e","r","g","e","n","c","y">>,
     <<"i","m","m","e","d","i","a","t","e","l","y">>,
     <<"a","s","a","p">> >>

FallbackConfidence == 50

FallbackResolutionTime == 60

\* inner loop: every keyword of the category found in the query sets the
\* category and is appended to the keyword list
RECURSIVE ScanKeywords(_, _, _, _)
ScanKeywords(cat, j, q, acc) ==
  IF j > Len(cat.keywords) THEN acc
  ELSE IF IsSubstr(Lower(cat.keywords[j]), q)
       THEN ScanKeywords(cat, j + 1, q,
              [category |-> cat.name,
               keywords |-> Append(acc.keywords, cat.keywords[j])])
       ELSE ScanKeywords(cat, j + 1, q, acc)

\* outer loop over self.categories.items(); the loop has no break
RECURSIVE ScanCategories(_, _, _)
ScanCategories(i, q, acc) ==
  IF i > Len(categories) THEN acc
  ELSE ScanCategories(i + 1, q, ScanKeywords(categories[i], 1, q, acc))

\* the urgent-word loop stopping one word short of the list
RECURSIVE ScanUrgentShort(_, _)
ScanUrgentShort(i, q) ==
  IF i >= Len(urgent_words) THEN "Medium"
  ELSE IF IsSubstr(urgent_words[i], q) THEN "High"
  ELSE ScanUrgentShort(i + 1, q)

\* the urgent-word loop with its break
RECURSIVE ScanUrgent(_, _)
ScanUrgent(i, q) ==
  IF i > Len(urgent_words) THEN "Medium"
  ELSE IF IsSubstr(urgent_words[i], q) THEN "High"
  ELSE ScanUrgent(i + 1, q)

\* a classifier that keeps the category of its previous run as the default
_fallback_classification_sticky(user_query) ==
  LET q == Lower(user_query)
      start == IF fbCalls = 0 THEN "Other" ELSE fbOut.category
      scan == ScanCategories(1, q, [category |-> start, keywords |-> <<>>])
  IN [category |-> scan.category,
      subcategory |-> Absent,
      priority |-> ScanUrgent(1, q),
      confidence |-> FallbackConfidence,
      suggested_keywords |-> scan.keywords,
      urgency_level |-> "Medium",
      sentiment_score |-> 0,
      similar_tickets |-> <<>>,
      auto_resolution_possible |-> FALSE,
      suggested_assignee |-> None,
      estimated_resolution_time |-> FallbackResolutionTime]

_fallback_classification(user_query) ==
  LET q == Lower(user_query)
      scan == ScanCategories(1, q, [category |-> "Other", keywords |-> <<>>])
  IN [category |-> scan.category,
      subcategory |-> Absent,
      priority |-> ScanUrgent(1, q),
      confidence |-> FallbackConfidence,
      suggested_keywords |-> scan.keywords,
      urgency_level |-> "Medium",
      sentiment_score |-> 0,
      similar_tickets |-> <<>>,
      auto_resolution_possible |-> FALSE,
      suggested_assignee |-> None,
      estimated_resolution_time |-> FallbackResolutionTime]

-----------------------------------------------------------------------------
(* GeminiAIService: the enrichment steps and classify_ticket.              *)

negative_words ==
  << <<"a","n","g","r","y">>,
     <<"f","r","u","s","t","r","a","t","e","d">>,
     <<"t","e","r","r","i","b","l","e">>,
     <<"a","w","f","u","l">>,
     <<"h","o","r","r","i","b","l","e">>,
     <<"u","p","s","e","t">> >>

positive_words ==
  << <<"h","a","p","p","y">>,
     <<"p","l","e","a","s","e","d">>,
     <<"g","r","a","t","e","f","u","l">>,
     <<"s","a","t","i","s","f","i","e","d">>,
     <<"e","x","c","e","l","l","e","n","t">> >>

SentimentStep == 20

SentimentLimit == 100

Min(a, b) == IF a <= b THEN a ELSE b

Max(a, b) == IF a >= b THEN a ELSE b

\* for word in words: if word in user_query.lower(): score += delta
RECURSIVE SentimentLoop(_, _, _, _, _)
SentimentLoop(words, i, q, score, delta) ==
  IF i > Len(words) THEN score
  ELSE SentimentLoop(words, i + 1, q,
         IF IsSubstr(words[i], q) THEN score + delta ELSE score, delta)

\* a clamp that forgot the lower limit
ClampSentimentAbove(x) == Min(SentimentLimit, x)

\* max(-1.0, min(1.0, sentiment_score))
ClampSentiment(x) == Max(0 - SentimentLimit, Min(SentimentLimit, x))

_enhance_with_sentiment_analysis(classification, user_query) ==
  LET q == Lower(user_query)
      afterNeg == SentimentLoop(negative_words, 1, q, 0, 0 - SentimentStep)
      afterPos == SentimentLoop(positive_words, 1, q, afterNeg, SentimentStep)
  IN [classification EXCEPT !.sentiment_score = ClampSentiment(afterPos)]

_find_similar_tickets(classification, user_query) ==
  [classification EXCEPT !.similar_tickets = <<"TICKET-1234", "TICKET-5678">>]

assignee_map ==
  ("VPN" :> "network_team") @@
  ("Password" :> "access_management_team") @@
  ("Email" :> "messaging_team") @@
  ("Hardware" :> "desktop_support") @@
  ("Software" :> "application_support") @@
  ("Network" :> "network_team") @@
  ("Access Control" :> "security_team") @@
  ("Printer" :> "desktop_support") @@
  ("GLPI" :> "asset_management_team") @@
  ("SAP" :> "erp_support_team")

\* dict.get(key, default)
DictGet(d, key, default) == IF key \in DOMAIN d THEN d[key] ELSE default

_suggest_assignee(classification) ==
  [classification EXCEPT
     !.suggested_assignee =
        DictGet(assignee_map, classification.category, "helpdesk_team")]

auto_resolvable_subcategories ==
  { <<"r","e","s","e","t">>, <<"u","n","l","o","c","k">>, <<"q","u","o","t","a">> }

_check_auto_resolution_possibility(classification, user_query) ==
  IF /\ classification.category \in {"Password", "Email"}
     /\ classification.subcategory # Absent
     /\ classification.subcategory[1] # <<>>
     /\ Lower(classification.subcategory[1]) \in auto_resolvable_subcategories
  THEN [classification EXCEPT !.auto_resolution_possible = TRUE]
  ELSE classification

\* minutes
base_times ==
  ("VPN" :> 30) @@ ("Password" :> 15) @@ ("Email" :> 45) @@
  ("Hardware" :> 120) @@ ("Software" :> 90) @@ ("Network" :> 60) @@
  ("Access Control" :> 45) @@ ("Printer" :> 30) @@ ("GLPI" :> 60) @@
  ("SAP" :> 120)

\* tenths
priority_multipliers ==
  ("Low" :> 15) @@ ("Medium" :> 10) @@ ("High" :> 8) @@
  ("Urgent" :> 6) @@ ("Critical" :> 5)

DefaultBaseTime == 60

DefaultMultiplier == 10

\* an estimate that also raises the priority of a long-running ticket
_estimate_resolution_time_escalating(classification) ==
  LET base_time == DictGet(base_times, classification.category, DefaultBaseTime)
      multiplier == DictGet(priority_multipliers, classification.priority,
                            DefaultMultiplier)
  IN [classification EXCEPT
        !.estimated_resolution_time = (base_time * multiplier) \div 10,
        !.priority = IF base_time >= 60 THEN "High" ELSE @]

\* int(base_time * multiplier)
_estimate_resolution_time(classification) ==
  LET base_time == DictGet(base_times, classification.category, DefaultBaseTime)
      multiplier == DictGet(priority_multipliers, classification.priority,
                            DefaultMultiplier)
  IN [classification EXCEPT
        !.estimated_resolution_time = (base_time * multiplier) \div 10]

\* What the call of the external classifier comes to:
\*   call_failed       _call_gemini_api raised
\*   bad_response      the reply raises KeyError, JSONDecodeError or ValueError
\*                     inside _parse_classification_response
\*   unexpected_shape  the reply raises another error there (an empty
\*                     candidates list, a JSON array, a null confidence)
\*   ok                a JSON object; a missing key is None or Absent
ApiOutcomes ==
  {[kind |-> k] : k \in {"call_failed", "bad_response", "unexpected_shape"}}
  \cup
  [kind : {"ok"},
   category : {None, "Password", "Weather"},
   subcategory : {Absent, Some(<<"R","e","s","e","t">>)},
   priority : {None, "Critical"},
   confidence : {Absent, Some(85)}]

DefaultParsedConfidence == 50

\* data.get(key, default)
JsonGet(v, default) == IF v = None THEN default ELSE v

\* float(data.get('confidence', 0.5))
JsonGetNumber(v, default) == IF v = Absent THEN default ELSE v[1]

_parse_classification_response(response, original_query) ==
  IF response.kind = "bad_response"
  THEN _fallback_classification(original_query)
  ELSE [category |-> JsonGet(response.category, "General"),
        subcategory |-> response.subcategory,
        priority |-> JsonGet(response.priority, "Medium"),
        confidence |-> JsonGetNumber(response.confidence, DefaultParsedConfidence),
        suggested_keywords |-> <<>>,
        urgency_level |-> "next_day",
        sentiment_score |-> 0,
        similar_tickets |-> <<>>,
        auto_resolution_possible |-> FALSE,
        suggested_assignee |-> None,
        estimated_resolution_time |-> None]

classify_ticket(user_query, response) ==
  IF response.kind \in {"call_failed", "unexpected_shape"}
  THEN _fallback_classification(user_query)
  ELSE LET c0 == _parse_classification_response(response, user_query)
           c1 == _enhance_with_sentiment_analysis(c0, user_query)
           c2 == _find_similar_tickets(c1, user_query)
           c3 == _suggest_assignee(c2)
           c4 == _check_auto_resolution_possibility(c3, user_query)
       IN _estimate_resolution_time(c4)

\* Query texts made of sentiment words: every set of negative words followed
\* by every set of positive words.
RECURSIVE SelectWords(_, _, _)
SelectWords(words, i, S) ==
  IF i > Len(words) THEN <<>>
  ELSE (IF i \in S THEN <<words[i]>> ELSE <<>>) \o SelectWords(words, i + 1, S)

LexTexts ==
  {JoinWords(SelectWords(negative_words, 1, N) \o SelectWords(positive_words, 1, P)) :
     N \in SUBSET (1..Len(negative_words)), P \in SUBSET (1..Len(positive_words))}

-----------------------------------------------------------------------------
(* TicketIngestionService: the auto-resolution decision.                   *)

\* SolutionType, by value
SolutionTypes ==
  {"manual_steps", "automated_script", "escalation_required",
   "self_service_link", "knowledge_article"}

\* Ranked solution lists handed to the decision: up to MaxSols candidates;
\* automated_action is None or the action_type of the action.
SolutionSet ==
  [solution_type : SolutionTypes,
   confidence : {50, 90, 91},
   automated_action : {None, "password_reset"}]

SolutionLists == UNION {[1..n -> SolutionSet] : n \in 0..MaxSols}

auto_resolvable_categories == {"Password"}

\* a decision that accepts a classification confidence of exactly 0.8
_check_auto_resolution_inclusive(classification, solutions) ==
  LET eligible ==
        /\ classification.category \in auto_resolvable_categories
        /\ classification.confidence >= 80
        /\ solutions # <<>>
      top_solution == solutions[1]
      can_auto_resolve ==
        /\ eligible
        /\ top_solution.solution_type \in {"self_service_link", "automated_script"}
        /\ top_solution.confidence > 90
  IN [can_auto_resolve |-> can_auto_resolve,
      auto_action |-> IF can_auto_resolve /\ top_solution.automated_action # None
                      THEN top_solution.automated_action ELSE None,
      confidence |-> classification.confidence]

_check_auto_resolution(classification, solutions) ==
  LET eligible ==
        /\ classification.category \in auto_resolvable_categories
        /\ classification.confidence > 80
        /\ solutions # <<>>
      top_solution == solutions[1]
      can_auto_resolve ==
        /\ eligible
        /\ top_solution.solution_type \in {"self_service_link", "automated_script"}
        /\ top_solution.confidence > 90
  IN [can_auto_resolve |-> can_auto_resolve,
      auto_action |-> IF can_auto_resolve /\ top_solution.automated_action # None
                      THEN top_solution.automated_action ELSE None,
      confidence |-> classification.confidence]

-----------------------------------------------------------------------------
(* Idle values of each group of variables.                                 *)

FbIdle ==
  /\ fbPc = "idle"
  /\ fbRunText = <<>>
  /\ fbOut = None
  /\ fbSeen = {}
  /\ fbCalls = 0

ClIdle ==
  /\ clPc = "idle"
  /\ clText = <<>>
  /\ clOutcome = None
  /\ clResult = None

ArIdle ==
  /\ arPc = "idle"
  /\ arClass = None
  /\ arSolutions = <<>>
  /\ arResult = None

ChIdle ==
  /\ chPc = "idle"
  /\ chText = <<>>
  /\ chStoreOk = TRUE
  /\ chClass = Pending
  /\ chSolutions = <<>>
  /\ chAuto = Pending
  /\ chResult = Pending
  /\ tickets = {}

RrIdle ==
  /\ articles = <<>>
  /\ articles0 = <<>>
  /\ resolutions = {}
  /\ rrPc = [p \in 1..NProcs |-> "idle"]
  /\ rrArgs = [p \in 1..NProcs |-> None]
  /\ rrLocal = [p \in 1..NProcs |-> None]
  /\ rrInserted = [p \in 1..NProcs |-> FALSE]
  /\ rrRet = [p \in 1..NProcs |-> None]
  /\ rrOverlap = FALSE

KsIdle ==
  /\ ksPc = "idle"
  /\ ksClass = Pending
  /\ ksContext = <<>>
  /\ ksLookup = "pending"
  /\ ksIn = <<>>
  /\ ksOut = <<>>

LnIdle ==
  /\ patterns = {}
  /\ lnPc = "idle"
  /\ lnArgs = Pending
  /\ lnOutcome = Pending

InIdle ==
  /\ inClock = 0
  /\ inPc = [p \in Intakes |-> "idle"]
  /\ inData = [p \in Intakes |-> Pending]
  /\ inLocal = [p \in Intakes |-> Pending]
  /\ inRet = [p \in Intakes |-> Pending]

SkIdle ==
  /\ active_connections = <<>>
  /\ ticket_rooms = <<>>
  /\ skEvent = Pending

-----------------------------------------------------------------------------------------------------------------------------------------------------
(* Runs of the keyword classifier.  The classifier reads nothing but its   *)
(* argument and self.categories; the availability of the external          *)
(* classifier and the runs on other texts change around it.  fbText is the *)
(* text whose runs are compared, fbSeen the <<category, priority>> pairs   *)
(* those runs returned.                                                    *)

\* a run on the text under comparison
RunFallback ==
  /\ fbCalls < MaxCalls
  /\ fbRunText' = fbText
  /\ fbOut' = _fallback_classification(fbText)
  /\ fbSeen' = fbSeen \cup {<<fbOut'.category, fbOut'.priority>>}
  /\ fbCalls' = fbCalls + 1
  /\ fbPc' = "done"
  /\ UNCHANGED <<fbText, fbApiUp, clVars, arVars, chVars, rrVars, ksVars, lnVars, inVars, skVars>>

\* a run on a one-word text in between
RunFallbackOther ==
  /\ fbCalls < MaxCalls
  /\ \E w \in 1..Len(Vocabulary) :
       /\ Vocabulary[w] # fbText
       /\ fbRunText' = Vocabulary[w]
       /\ fbOut' = _fallback_classification(Vocabulary[w])
  /\ fbCalls' = fbCalls + 1
  /\ fbPc' = "done"
  /\ UNCHANGED <<fbText, fbSeen, fbApiUp, clVars, arVars, chVars, rrVars, ksVars, lnVars, inVars, skVars>>

\* the external classifier goes down or comes back
ApiChange ==
  /\ fbApiUp' = ~fbApiUp
  /\ UNCHANGED <<fbPc, fbText, fbRunText, fbOut, fbSeen, fbCalls>>
  /\ UNCHANGED <<clVars, arVars, chVars, rrVars, ksVars, lnVars, inVars, skVars>>

InitFallback ==
  /\ fbText \in WordTexts
  /\ fbApiUp \in BOOLEAN
  /\ FbIdle /\ ClIdle /\ ArIdle /\ ChIdle /\ RrIdle /\ KsIdle /\ LnIdle /\ InIdle /\ SkIdle

NextFallback == RunFallback \/ RunFallbackOther \/ ApiChange

SpecFallback == InitFallback /\ [][NextFallback]_vars

\* categories with at least one keyword occurring, case-insensitively, in t
MatchingCategories(t) ==
  {i \in 1..Len(categories) :
     \E j \in 1..Len(categories[i].keywords) :
        IsSubstr(Lower(categories[i].keywords[j]), Lower(t))}

FirstMatchingCategory(t) ==
  IF MatchingCategories(t) = {} THEN "Other"
  ELSE categories[CHOOSE i \in MatchingCategories(t) :
                    \A k \in MatchingCategories(t) : i <= k].name

\* C6: the keyword classifier returns the first category of the table, in
\* table order, that has a keyword occurring in the text, and Other when
\* no category has one.
C6_FirstMatchWins ==
  fbPc = "done" => fbOut.category = FirstMatchingCategory(fbRunText)

HasUrgentWord(t) ==
  \E i \in 1..Len(urgent_words) : IsSubstr(urgent_words[i], Lower(t))

\* C7: the keyword classifier returns priority High exactly when the text
\* contains, case-insensitively, a word of the urgent-word list, and Medium
\* otherwise, whatever category and keywords matched.
C7_PriorityFromUrgentWords ==
  fbPc = "done" =>
    fbOut.priority = (IF HasUrgentWord(fbRunText) THEN "High" ELSE "Medium")

\* an upper-case urgent word next to keywords of two categories
C7_Witness ==
  /\ fbPc = "done"
  /\ fbOut.priority = "High"
  /\ Len(fbOut.suggested_keywords) >= 2
  /\ IsSubstr(<<"U","R","G","E","N","T">>, fbRunText)

-----------------------------------------------------------------------------
(* One call of classify_ticket on a query and a reply of the external      *)
(* classifier.                                                             *)

ClassifyTicket ==
  /\ clPc = "idle"
  /\ clResult' = classify_ticket(clText, clOutcome)
  /\ clPc' = "done"
  /\ UNCHANGED <<clText, clOutcome, fbVars, arVars, chVars, rrVars, ksVars, lnVars, inVars, skVars>>

InitClassify ==
  /\ clText \in WordTexts \cup LexTexts
  /\ clOutcome \in ApiOutcomes
  /\ clPc = "idle"
  /\ clResult = None
  /\ fbText = <<>>
  /\ fbApiUp = TRUE
  /\ FbIdle /\ ArIdle /\ ChIdle /\ RrIdle /\ KsIdle /\ LnIdle /\ InIdle /\ SkIdle

NextClassify == ClassifyTicket

SpecClassify == InitClassify /\ [][NextClassify]_vars

\* C9: every classification returned by classify_ticket carries the team of
\* the category-to-team table for its category, or helpdesk_team when the
\* category is not in the table.
C9_AssigneeAlwaysSet ==
  clPc = "done" =>
    clResult.suggested_assignee =
      (IF clResult.category \in DOMAIN assignee_map
       THEN assignee_map[clResult.category] ELSE "helpdesk_team")

\* C10: the sentiment score of a returned classification lies in [-1, 1].
C10_SentimentInRange ==
  clPc = "done" =>
    /\ clResult.sentiment_score >= 0 - SentimentLimit
    /\ clResult.sentiment_score <= SentimentLimit

\* six negative words and no positive one: -1.2 before the clamp
C10_Witness ==
  /\ clPc = "done"
  /\ clOutcome.kind = "ok"
  /\ \A i \in 1..Len(negative_words) : IsSubstr(negative_words[i], Lower(clText))
  /\ \A i \in 1..Len(positive_words) : ~IsSubstr(positive_words[i], Lower(clText))
  /\ clResult.sentiment_score = 0 - SentimentLimit

-----------------------------------------------------------------------------
(* One call of _check_auto_resolution on a classification and a ranked     *)
(* solution list.                                                          *)

CheckAutoResolution ==
  /\ arPc = "idle"
  /\ arResult' = _check_auto_resolution(arClass, arSolutions)
  /\ arPc' = "done"
  /\ UNCHANGED <<arClass, arSolutions, fbVars, clVars, chVars, rrVars, ksVars, lnVars, inVars, skVars>>

InitAuto ==
  /\ arClass \in [category : {"Password", "Email", "Other"},
                  confidence : {50, 80, 81}]
  /\ arSolutions \in SolutionLists
  /\ arPc = "idle"
  /\ arResult = None
  /\ fbText = <<>>
  /\ fbApiUp = TRUE
  /\ FbIdle /\ ClIdle /\ ChIdle /\ RrIdle /\ KsIdle /\ LnIdle /\ InIdle /\ SkIdle

NextAuto == CheckAutoResolution

SpecAuto == InitAuto /\ [][NextAuto]_vars

\* C1: can_auto_resolve is true exactly when the category is Password, the
\* classification confidence is above 0.8, the ranked list is not empty,
\* and its first solution is self-service or automated with a confidence
\* above 0.9.
C1_AutoResolveIff ==
  arPc = "done" =>
    (arResult.can_auto_resolve
       <=> /\ arClass.category = "Password"
           /\ arClass.confidence > 80
           /\ Len(arSolutions) > 0
           /\ arSolutions[1].solution_type \in {"self_service_link", "automated_script"}
           /\ arSolutions[1].confidence > 90)

\* an automated top solution above a manual one, just over both thresholds
C1_Witness ==
  /\ arPc = "done"
  /\ arResult.can_auto_resolve
  /\ arClass.confidence = 81
  /\ Len(arSolutions) = 2
  /\ arSolutions[1].solution_type = "automated_script"
  /\ arSolutions[1].confidence = 91
  /\ arSolutions[2].solution_type = "manual_steps"

-----------------------------------------------------------------------------
(* KnowledgeBaseService.record_resolution.  NProcs calls run as coroutines *)
(* that interleave at every await; each store operation can raise.         *)
(*   articles     the knowledge store, article id -> article               *)
(*   articles0    the store before the first call                          *)
(*   resolutions  the resolution history                                   *)
(*   rrLocal[p]   the article object call p holds between get and save     *)
(*   rrRet[p]     "returned" or "raised" once call p has ended             *)
(*   rrOverlap    whether two calls have been in flight at the same time   *)

Procs == 1..NProcs

TicketIds == {"T1", "T2"}

\* A1 is in the store, A9 is not
ArticleIds == {"A1"}

\* the fields of a TicketResolution the knowledge service reads or writes;
\* record_resolution copies every one of them from its arguments
TicketResolutions(ids, cats, methods, outcomes, minutes, article_ids, queries, actuals) ==
  [ticket_id : ids,
   original_query : queries,
   classified_category : cats,
   classified_subcategory : {Absent},
   resolution_method : methods,
   knowledge_article_id : article_ids,
   solution_used : {Absent},
   resolved_successfully : outcomes,
   resolution_time_minutes : minutes,
   actual_solution : actuals]

ResolutionArgs ==
  TicketResolutions(TicketIds, {"VPN"}, {"knowledge_base"}, BOOLEAN, {10},
                    {None, "A1", "A9"}, {<<>>}, {Absent})

InFlight(p) == rrPc[p] \notin {"idle", "done"}

\* the call ends with an exception for its caller
Raise(p) ==
  /\ rrPc' = [rrPc EXCEPT ![p] = "done"]
  /\ rrRet' = [rrRet EXCEPT ![p] = "raised"]

\* record_resolution is called
RrCall ==
  \E p \in Procs, a \in ResolutionArgs :
    /\ rrPc[p] = "idle"
    /\ rrPc' = [rrPc EXCEPT ![p] = "insert"]
    /\ rrArgs' = [rrArgs EXCEPT ![p] = a]
    /\ rrOverlap' = (rrOverlap \/ \E q \in Procs \ {p} : InFlight(q))
    /\ UNCHANGED <<articles, articles0, resolutions, rrLocal, rrInserted, rrRet>>
    /\ UNCHANGED <<fbVars, clVars, arVars, chVars, ksVars, lnVars, inVars, skVars>>

\* an insert into a collection without the unique index on ticket_id
RrInsertNoIndex ==
  \E p \in Procs, ok \in BOOLEAN :
    /\ rrPc[p] = "insert"
    /\ IF ok
       THEN /\ resolutions' = resolutions \cup {rrArgs[p]}
            /\ rrInserted' = [rrInserted EXCEPT ![p] = TRUE]
            /\ rrPc' = [rrPc EXCEPT ![p] =
                 IF /\ rrArgs[p].knowledge_article_id # None
                    /\ rrArgs[p].resolved_successfully
                 THEN "stats_get" ELSE "learn"]
            /\ UNCHANGED rrRet
       ELSE /\ Raise(p)
            /\ UNCHANGED <<resolutions, rrInserted>>
    /\ UNCHANGED <<articles, articles0, rrArgs, rrLocal, rrOverlap>>
    /\ UNCHANGED <<fbVars, clVars, arVars, chVars, ksVars, lnVars, inVars, skVars>>

\* await resolution.insert(); ticket_id carries a unique index
RrInsert ==
  \E p \in Procs, ok \in BOOLEAN :
    /\ rrPc[p] = "insert"
    /\ IF ok /\ \A r \in resolutions : r.ticket_id # rrArgs[p].ticket_id
       THEN /\ resolutions' = resolutions \cup {rrArgs[p]}
            /\ rrInserted' = [rrInserted EXCEPT ![p] = TRUE]
            /\ rrPc' = [rrPc EXCEPT ![p] =
                 IF /\ rrArgs[p].knowledge_article_id # None
                    /\ rrArgs[p].resolved_successfully
                 THEN "stats_get" ELSE "learn"]
            /\ UNCHANGED rrRet
       ELSE /\ Raise(p)
            /\ UNCHANGED <<resolutions, rrInserted>>
    /\ UNCHANGED <<articles, articles0, rrArgs, rrLocal, rrOverlap>>
    /\ UNCHANGED <<fbVars, clVars, arVars, chVars, ksVars, lnVars, inVars, skVars>>

\* the counters of _update_article_stats, applied to the loaded object;
\* primary_success_rate is Absent without a primary solution, else the
\* fraction <<numerator, denominator>> of primary_solution.success_rate
BumpStats(article, successful) ==
  LET attempts == article.total_attempts + 1
      successes == article.success_resolutions + (IF successful THEN 1 ELSE 0)
  IN [article EXCEPT
        !.total_attempts = attempts,
        !.success_resolutions = successes,
        !.primary_success_rate =
           IF article.primary_success_rate = Absent THEN Absent
           ELSE Some(<<successes, attempts>>)]

\* _update_article_stats: article = await KnowledgeArticle.get(article_id),
\* then the counters are changed on the loaded object
RrStatsGet ==
  \E p \in Procs, ok \in BOOLEAN :
    /\ rrPc[p] = "stats_get"
    /\ IF ~ok
       THEN Raise(p) /\ UNCHANGED rrLocal
       ELSE IF rrArgs[p].knowledge_article_id \in DOMAIN articles
       THEN /\ rrLocal' = [rrLocal EXCEPT ![p] =
                 BumpStats(articles[rrArgs[p].knowledge_article_id], TRUE)]
            /\ rrPc' = [rrPc EXCEPT ![p] = "stats_save"]
            /\ UNCHANGED rrRet
       ELSE /\ rrPc' = [rrPc EXCEPT ![p] = "learn"]
            /\ UNCHANGED <<rrLocal, rrRet>>
    /\ UNCHANGED <<articles, articles0, resolutions, rrArgs, rrInserted, rrOverlap>>
    /\ UNCHANGED <<fbVars, clVars, arVars, chVars, ksVars, lnVars, inVars, skVars>>

\* _update_article_stats: await article.save() writes the loaded object back
RrStatsSave ==
  \E p \in Procs, ok \in BOOLEAN :
    /\ rrPc[p] = "stats_save"
    /\ IF ok
       THEN /\ articles' = [articles EXCEPT
                 ![rrArgs[p].knowledge_article_id] = rrLocal[p]]
            /\ rrPc' = [rrPc EXCEPT ![p] = "learn"]
            /\ UNCHANGED rrRet
       ELSE Raise(p) /\ UNCHANGED articles
    /\ UNCHANGED <<articles0, resolutions, rrArgs, rrLocal, rrInserted, rrOverlap>>
    /\ UNCHANGED <<fbVars, clVars, arVars, chVars, ksVars, lnVars, inVars, skVars>>

\* await self._learn_from_resolution(resolution): every exception inside is
\* caught and logged; then record_resolution returns the record
RrLearn ==
  \E p \in Procs :
    /\ rrPc[p] = "learn"
    /\ rrPc' = [rrPc EXCEPT ![p] = "done"]
    /\ rrRet' = [rrRet EXCEPT ![p] = "returned"]
    /\ UNCHANGED <<articles, articles0, resolutions, rrArgs, rrLocal, rrInserted,
                   rrOverlap>>
    /\ UNCHANGED <<fbVars, clVars, arVars, chVars, ksVars, lnVars, inVars, skVars>>

\* the fields of a KnowledgeArticle the knowledge service reads or writes;
\* solutions holds the description of each Solution
KnowledgeArticles(attempts, successes, rates, solution_lists) ==
  [category : {"VPN"},
   subcategory : {Absent},
   solutions : solution_lists,
   total_attempts : attempts,
   success_resolutions : successes,
   primary_success_rate : rates]

InitialArticles ==
  [ArticleIds ->
     KnowledgeArticles({0}, {0}, {Absent, Some(<<0, 1>>)}, {<<>>})
     \cup
     KnowledgeArticles({3}, {2}, {Some(<<2, 3>>)}, {<<>>})]

InitResolution ==
  /\ articles \in InitialArticles
  /\ articles0 = articles
  /\ resolutions = {}
  /\ rrPc = [p \in Procs |-> "idle"]
  /\ rrArgs = [p \in Procs |-> None]
  /\ rrLocal = [p \in Procs |-> None]
  /\ rrInserted = [p \in Procs |-> FALSE]
  /\ rrRet = [p \in Procs |-> None]
  /\ rrOverlap = FALSE
  /\ fbText = <<>>
  /\ fbApiUp = TRUE
  /\ FbIdle /\ ClIdle /\ ArIdle /\ ChIdle /\ KsIdle /\ LnIdle /\ InIdle /\ SkIdle

NextResolution == RrCall \/ RrInsert \/ RrStatsGet \/ RrStatsSave \/ RrLearn

SpecResolution == InitResolution /\ [][NextResolution]_vars

Returned(p) == rrPc[p] = "done" /\ rrRet[p] = "returned"

\* C3: when NProcs concurrent calls each successfully resolve a ticket with
\* article A1 and return, total_attempts and success_resolutions of A1 end
\* exactly NProcs higher than before.
C3_NoLostIncrement ==
  (\A p \in Procs :
      /\ Returned(p)
      /\ rrArgs[p].knowledge_article_id = "A1"
      /\ rrArgs[p].resolved_successfully)
  => /\ articles["A1"].total_attempts = articles0["A1"].total_attempts + NProcs
     /\ articles["A1"].success_resolutions =
          articles0["A1"].success_resolutions + NProcs

\* C4: a call whose ResolutionRecord insert succeeded returns the record;
\* it never raises because of a later side effect.
C4_SideEffectFailuresSwallowed ==
  \A p \in Procs : (rrPc[p] = "done" /\ rrInserted[p]) => rrRet[p] = "returned"

CallsOn(a) ==
  {p \in Procs : Returned(p) /\ rrArgs[p].knowledge_article_id = a}

\* C5: after a sequence of calls that reference the stored article A1,
\* total_attempts has grown by the number of calls and success_resolutions
\* by the number of successful ones.
C5_AttemptsCountEveryCall ==
  (~rrOverlap /\ \A p \in Procs : ~InFlight(p))
  => /\ articles["A1"].total_attempts =
          articles0["A1"].total_attempts + Cardinality(CallsOn("A1"))
     /\ articles["A1"].success_resolutions =
          articles0["A1"].success_resolutions
            + Cardinality({p \in CallsOn("A1") : rrArgs[p].resolved_successfully})

-----------------------------------------------------------------------------
(* TicketIngestionService.ingest_chatbot_query, one step per await.        *)
(*   chStoreOk    whether the ticket store accepts the insert              *)
(*   chClass      the classification, chSolutions the ranked solutions     *)
(*   chResult     what the call returned, or status "error" when it raised *)
(*   tickets      the ticket store                                         *)

ChatTexts ==
  { <<>>,
    <<"r","e","s","e","t">>,
    <<"U","R","G","E","N","T">> \o <<" ">> \o <<"P","r","i","n","t","e","r">> }

\* What find_solutions can return to the intake: [] when a stage inside it
\* raised (its except clause), else the ranked candidates.  The candidates
\* come from the external classifier or the fallback table and their
\* confidences from the ranking stages, so the intake has to cope with any
\* list; the lists here put confidences on both sides of the 0.9 threshold
\* under a self-service and under an escalation solution.
ChatSolutionLists ==
  UNION {[1..n -> [solution_type : {"self_service_link", "escalation_required"},
                  confidence : {90, 95},
                  automated_action : {None}]] : n \in 0..MaxSols}

DefaultResponseTime == 4

DefaultResolutionTime == 24

\* latest reading of the clock, in hours
MaxClock == 1

\* the imports with AIAnalysis among them
ImportedTicketNamesWithAnalysis ==
  {"Ticket", "TicketStatus", "TicketPriority", "TicketCategory",
   "TicketSource", "SLAInfo", "AIAnalysis"}

\* the names ingestion_service.py binds at module level from models.ticket
ImportedTicketNames ==
  {"Ticket", "TicketStatus", "TicketPriority", "TicketCategory",
   "TicketSource", "SLAInfo"}

\* priority_mapping of _create_ticket_from_classification
priority_mapping ==
  [Low |-> "low", Medium |-> "medium", High |-> "high", Urgent |-> "urgent",
   Critical |-> "critical"]

\* sla_times of _create_ticket_from_classification
sla_times ==
  [critical |-> [response |-> 1, resolution |-> 4],
   urgent |-> [response |-> 2, resolution |-> 8],
   high |-> [response |-> 4, resolution |-> 24],
   medium |-> [response |-> 8, resolution |-> 48],
   low |-> [response |-> 24, resolution |-> 72]]

\* SLAInfo(response_time_hours=..., resolution_time_hours=...): the two
\* deadlines keep their default None
SLAInfo(response, resolution) ==
  [response_time_hours |-> response,
   resolution_time_hours |-> resolution,
   first_response_deadline |-> Absent,
   resolution_deadline |-> Absent]

\* Ticket(...): created_at is the clock reading at construction
Ticket(id, description, priority, category, source, sla_info, now) ==
  [id |-> id, description |-> description, priority |-> priority,
   category |-> category, source |-> source, sla_info |-> sla_info,
   created_at |-> now]

\* an except clause that lets the exception reach the caller
IngestExceptReraise ==
  /\ chPc' = "done"
  /\ chResult' = [status |-> "error"]

\* the except clause of ingest_chatbot_query: go on to _create_basic_ticket
IngestExcept ==
  /\ chPc' = "basic"
  /\ UNCHANGED chResult

ChStart ==
  /\ chPc = "idle"
  /\ chText' \in ChatTexts
  /\ chStoreOk' \in BOOLEAN
  /\ chPc' = "classify"
  /\ UNCHANGED <<chClass, chSolutions, chAuto, chResult, tickets>>
  /\ UNCHANGED <<fbVars, clVars, arVars, rrVars, ksVars, lnVars, inVars, skVars>>

\* classification = await gemini_service.classify_ticket(...)
ChClassify ==
  /\ chPc = "classify"
  /\ \E response \in ApiOutcomes : chClass' = classify_ticket(chText, response)
  /\ chPc' = "solutions"
  /\ UNCHANGED <<chText, chStoreOk, chSolutions, chAuto, chResult, tickets>>
  /\ UNCHANGED <<fbVars, clVars, arVars, rrVars, ksVars, lnVars, inVars, skVars>>

\* solutions = await knowledge_service.find_solutions(...); a failing lookup,
\* history read or ranking stage inside it comes back as []
ChFindSolutions ==
  /\ chPc = "solutions"
  /\ chSolutions' \in ChatSolutionLists
  /\ chPc' = "auto"
  /\ UNCHANGED <<chText, chStoreOk, chClass, chAuto, chResult, tickets>>
  /\ UNCHANGED <<fbVars, clVars, arVars, rrVars, ksVars, lnVars, inVars, skVars>>

\* a check that decides on the top candidate alone, whatever the confidence
\* of the classification
ChCheckAutoTopOnly ==
  /\ chPc = "auto"
  /\ \E raised \in BOOLEAN :
       IF raised
       THEN IngestExcept /\ UNCHANGED chAuto
       ELSE LET auto == _check_auto_resolution(
                          [chClass EXCEPT !.confidence = 100], chSolutions)
            IN /\ chAuto' = auto
               /\ IF auto.can_auto_resolve
                  THEN /\ chPc' = "done"
                       /\ chResult' = [status |-> "resolved"]
                  ELSE /\ chPc' = "create"
                       /\ UNCHANGED chResult
  /\ UNCHANGED <<chText, chStoreOk, chClass, chSolutions, tickets>>
  /\ UNCHANGED <<fbVars, clVars, arVars, rrVars, ksVars, lnVars, inVars, skVars>>

\* auto_resolution = await self._check_auto_resolution(...), inside the try
ChCheckAuto ==
  /\ chPc = "auto"
  /\ \E raised \in BOOLEAN :
       IF raised
       THEN IngestExcept /\ UNCHANGED chAuto
       ELSE LET auto == _check_auto_resolution(chClass, chSolutions)
            IN /\ chAuto' = auto
               /\ IF auto.can_auto_resolve
                  THEN /\ chPc' = "done"
                       /\ chResult' = [status |-> "resolved"]
                  ELSE /\ chPc' = "create"
                       /\ UNCHANGED chResult
  /\ UNCHANGED <<chText, chStoreOk, chClass, chSolutions, tickets>>
  /\ UNCHANGED <<fbVars, clVars, arVars, rrVars, ksVars, lnVars, inVars, skVars>>

\* _create_ticket_from_classification: priority and SLA hours come from the
\* two tables, then AIAnalysis(...) is evaluated.  The module never imports
\* AIAnalysis, so that raises NameError before Ticket(...) and the insert,
\* and the except clause of ingest_chatbot_query takes over.
ChCreateFromClassification ==
  /\ chPc = "create"
  /\ LET priority == DictGet(priority_mapping, chClass.priority, "medium")
         sla_config == sla_times[priority]
         sla_info == SLAInfo(sla_config.response, sla_config.resolution)
     IN IF "AIAnalysis" \in ImportedTicketNames
        THEN \E now \in 0..MaxClock :
               LET ticket == Ticket(Cardinality(tickets) + 1, chText, priority,
                                    "other", "chatbot", sla_info, now)
               IN IF chStoreOk
                  THEN /\ tickets' = tickets \cup {ticket}
                       /\ chResult' = [status |-> "ticket_created",
                                       ticket_id |-> ticket.id]
                       /\ chPc' = "done"
                  ELSE IngestExcept /\ UNCHANGED tickets
        ELSE IngestExcept /\ UNCHANGED tickets
  /\ UNCHANGED <<chText, chStoreOk, chClass, chSolutions, chAuto>>
  /\ UNCHANGED <<fbVars, clVars, arVars, rrVars, ksVars, lnVars, inVars, skVars>>

\* _create_basic_ticket inside the except clause; a rejected insert raises
\* out of ingest_chatbot_query
ChCreateBasic ==
  /\ chPc = "basic"
  /\ IF chStoreOk
     THEN \E now \in 0..MaxClock :
            LET sla_info == SLAInfo(DefaultResponseTime, DefaultResolutionTime)
                ticket == Ticket(Cardinality(tickets) + 1, chText, "medium",
                                 "other", "chatbot", sla_info, now)
            IN /\ tickets' = tickets \cup {ticket}
               /\ chResult' = [status |-> "ticket_created",
                               ticket_id |-> ticket.id]
     ELSE /\ chResult' = [status |-> "error"]
          /\ UNCHANGED tickets
  /\ chPc' = "done"
  /\ UNCHANGED <<chText, chStoreOk, chClass, chSolutions, chAuto>>
  /\ UNCHANGED <<fbVars, clVars, arVars, rrVars, ksVars, lnVars, inVars, skVars>>

InitChat ==
  /\ fbText = <<>>
  /\ fbApiUp = TRUE
  /\ FbIdle /\ ClIdle /\ ArIdle /\ ChIdle /\ RrIdle /\ KsIdle /\ LnIdle /\ InIdle /\ SkIdle

NextChat ==
  \/ ChStart
  \/ ChClassify
  \/ ChFindSolutions
  \/ ChCheckAuto
  \/ ChCreateFromClassification
  \/ ChCreateBasic

SpecChat == InitChat /\ [][NextChat]_vars

\* every await of the intake returns or raises in the end
SpecChatLive == SpecChat /\ WF_vars(NextChat)

ChatOutcomeOk ==
  /\ chPc = "done"
  /\ \/ chResult.status = "resolved"
     \/ /\ chResult.status = "ticket_created"
        /\ \E t \in tickets : t.id = chResult.ticket_id

\* C2: an intake whose ticket store accepts inserts ends, whatever stages
\* failed, with status resolved or with status ticket_created and the
\* ticket in the store.
C2_IntakeCompletes == (chPc = "classify" /\ chStoreOk) ~> ChatOutcomeOk

\* classifier down, no solutions, and still a ticket in the store
C2_Witness ==
  /\ ChatOutcomeOk
  /\ chResult.status = "ticket_created"
  /\ chClass.suggested_assignee = None
  /\ chSolutions = <<>>
  /\ chAuto = Pending

\* the ticket the finished intake reported
CreatedTicket == CHOOSE t \in tickets : t.id = chResult.ticket_id

\* the intake went through classification, solution search and the
\* auto-resolution decision and then created a ticket
TicketFromClassification ==
  /\ chPc = "done"
  /\ chResult.status = "ticket_created"
  /\ chAuto # Pending

\* the hours the fixed table gives for an AI priority string
TableHours(p) ==
  IF p = "Critical" THEN <<1, 4>>
  ELSE IF p = "Urgent" THEN <<2, 8>>
  ELSE IF p = "High" THEN <<4, 24>>
  ELSE IF p = "Low" THEN <<24, 72>>
  ELSE <<8, 48>>

\* C11: a ticket created from a classification with priority p carries the
\* response/resolution hours of the fixed table for p (unrecognised
\* priorities as Medium), and resolution hours >= response hours > 0.
C11_SlaHoursFromPriority ==
  TicketFromClassification =>
    LET sla == CreatedTicket.sla_info
    IN /\ <<sla.response_time_hours, sla.resolution_time_hours>>
            = TableHours(chClass.priority)
       /\ sla.resolution_time_hours >= sla.response_time_hours
       /\ sla.response_time_hours > 0

\* C12: every ticket of the intake has both deadlines set, to created_at
\* plus the response hours and created_at plus the resolution hours.
C12_DeadlinesSet ==
  \A t \in tickets :
    /\ t.sla_info.first_response_deadline
         = Some(t.created_at + t.sla_info.response_time_hours)
    /\ t.sla_info.resolution_deadline
         = Some(t.created_at + t.sla_info.resolution_time_hours)

-----------------------------------------------------------------------------
(* KnowledgeBaseService._rank_solutions.  Scores are in units of 1/1200,  *)
(* in which every term of the score is a whole number: a confidence of c  *)
(* hundredths is 12 * c, the type bonuses are 120, 60 and -240, and the   *)
(* time factor max(0, 1 - t / 120) * 0.1 is max(0, 120 - t).              *)
(*   ksClass   the classification, ksContext the caller context, ksIn the  *)
(*   candidates handed to the stage, ksOut what the stage returned        *)

\* SolutionRecommendation(...) as the ranking stages read it
SolutionRecommendation(title, description, solution_type, confidence, estimated_time) ==
  [title |-> title, description |-> description,
   solution_type |-> solution_type, confidence |-> confidence,
   estimated_time |-> estimated_time]

\* a score that looks at confidence and time only
solution_score_flat(solution, classification) ==
  12 * solution.confidence + Max(0, 120 - solution.estimated_time)

\* solution_score of _rank_solutions
solution_score(solution, classification) ==
  LET type_bonus ==
        IF solution.solution_type = "self_service_link" THEN 120
        ELSE IF solution.solution_type = "automated_script" THEN 60
        ELSE IF solution.solution_type = "escalation_required"
        THEN IF classification.priority \notin {"High", "Urgent", "Critical"}
             THEN -240 ELSE 0
        ELSE 0
      time_factor == Max(0, 120 - solution.estimated_time)
  IN 12 * solution.confidence + type_bonus + time_factor

\* an insertion that puts x in front of the elements of equal score
RECURSIVE InsertByScoreEager(_, _, _)
InsertByScoreEager(x, s, classification) ==
  IF s = <<>> THEN <<x>>
  ELSE IF solution_score(Head(s), classification)
            > solution_score(x, classification)
  THEN <<Head(s)>> \o InsertByScoreEager(x, Tail(s), classification)
  ELSE <<x>> \o s

\* x goes behind every element whose score is at least its own: the place
\* a stable descending sort gives to an element that came later
RECURSIVE InsertByScore(_, _, _)
InsertByScore(x, s, classification) ==
  IF s = <<>> THEN <<x>>
  ELSE IF solution_score(Head(s), classification)
            >= solution_score(x, classification)
  THEN <<Head(s)>> \o InsertByScore(x, Tail(s), classification)
  ELSE <<x>> \o s

\* sorted(solutions, key=solution_score, reverse=True); sorted is stable
\* and reverse=True keeps the original order of equal keys
RECURSIVE SortedByScore(_, _, _)
SortedByScore(solutions, classification, acc) ==
  IF solutions = <<>> THEN acc
  ELSE SortedByScore(Tail(solutions), classification,
                     InsertByScore(Head(solutions), acc, classification))

_rank_solutions(solutions, classification) ==
  SortedByScore(solutions, classification, <<>>)

\* the candidates of the i-th place carry the i-th title
RankTitles == <<<<"s","1">>, <<"s","2">>, <<"s","3">>, <<"s","4">>>>

RankTypes ==
  {"self_service_link", "automated_script", "escalation_required",
   "manual_steps"}

RankCores ==
  [solution_type : RankTypes, confidence : {70, 80},
   estimated_time : {60, 180}]

RankInputs ==
  UNION {{[i \in 1..n |->
             SolutionRecommendation(RankTitles[i], <<>>, c[i].solution_type,
                                    c[i].confidence, c[i].estimated_time)]
           : c \in [1..n -> RankCores]} : n \in 0..MaxSols}

RankPriorities == {"Medium", "Low", "High"}

\* return self._rank_solutions(enhanced_solutions, classification)
RankSolutions ==
  /\ ksPc = "rank"
  /\ ksOut' = _rank_solutions(ksIn, ksClass)
  /\ ksPc' = "ranked"
  /\ UNCHANGED <<ksClass, ksContext, ksLookup, ksIn>>
  /\ UNCHANGED <<fbVars, clVars, arVars, chVars, rrVars, lnVars, inVars, skVars>>

InitRank ==
  /\ ksPc = "rank"
  /\ ksClass \in [priority : RankPriorities]
  /\ ksContext = <<>>
  /\ ksLookup = "pending"
  /\ ksIn \in RankInputs
  /\ ksOut = <<>>
  /\ fbText = <<>>
  /\ fbApiUp = TRUE
  /\ FbIdle /\ ClIdle /\ ArIdle /\ ChIdle /\ RrIdle /\ LnIdle /\ InIdle /\ SkIdle

NextRank == RankSolutions

SpecRank == InitRank /\ [][NextRank]_vars

\* the place in ksIn of the candidate at place i of ksOut
InputPlace(i) == CHOOSE k \in 1..Len(ksIn) : ksIn[k].title = ksOut[i].title

C14_EscalationBehindSelfService ==
  (ksPc = "ranked" /\ ksClass.priority \in {"Medium", "Low"}) =>
    \A i, j \in 1..Len(ksOut) :
      (/\ i < j
       /\ ksOut[i].solution_type = "escalation_required"
       /\ ksOut[j].solution_type = "self_service_link")
      => ksOut[i].confidence # ksOut[j].confidence

\* a quick escalation entered before a slow self-service candidate of the
\* same confidence and was ranked behind it
C14_Witness ==
  /\ ksPc = "ranked"
  /\ ksClass.priority = "Medium"
  /\ Len(ksIn) >= 2
  /\ ksIn[1].solution_type = "escalation_required"
  /\ ksIn[2].solution_type = "self_service_link"
  /\ ksIn[1].confidence = ksIn[2].confidence
  /\ ksIn[1].estimated_time < ksIn[2].estimated_time
  /\ ksOut[1] = ksIn[2]

-----------------------------------------------------------------------------
(* KnowledgeBaseService._enhance_with_history.  The resolution history is  *)
(* the store resolutions.                                                  *)

\* sum(f(r) for r in records)
RECURSIVE SumOver(_, _)
SumOver(records, field) ==
  IF records = {} THEN 0
  ELSE LET r == CHOOSE x \in records : TRUE
       IN r[field] + SumOver(records \ {r}, field)

\* a read of the history that does not look at the category
historical_resolutions_any(history, classification) ==
  {r \in history : r.resolved_successfully}

\* TicketResolution.find({classified_category, resolved_successfully: True})
historical_resolutions(history, classification) ==
  {r \in history :
     /\ r.classified_category = classification.category
     /\ r.resolved_successfully}

\* The loop body of _enhance_with_history for one solution.  The new
\* confidence min(0.95, c * (1 + k / n)) is (c * (n + k)) / n hundredths,
\* a whole number for the confidences and history sizes drawn below; the
\* new time int((t + sum / m) / 2) is the floor of (t * m + sum) / (2 * m).
EnhanceOne(solution, historical) ==
  LET method_key == solution.solution_type
      by_method == {r \in historical : r.resolution_method = method_key}
      n == Cardinality(historical)
      k == Cardinality(by_method)
  IN IF by_method = {} THEN solution
     ELSE [solution EXCEPT
             !.confidence =
                Min(95, (solution.confidence * (n + k)) \div n),
             !.estimated_time =
                (solution.estimated_time * k
                   + SumOver(by_method, "resolution_time_minutes")) \div (2 * k)]

_enhance_with_history(solutions, classification, history) ==
  LET historical == historical_resolutions(history, classification)
  IN [i \in 1..Len(solutions) |-> EnhanceOne(solutions[i], historical)]

HistoryCategories == {"VPN", "Email"}

\* histories of at most one record per ticket
Histories ==
  UNION {[ids -> TicketResolutions(
                   {"T1"}, HistoryCategories,
                   {"self_service_link", "manual_resolution"}, BOOLEAN,
                   {10, 45}, {None}, {<<>>}, {Absent})]
           : ids \in SUBSET {"T1", "T2"}}

HistoryOf(h) == {[h[t] EXCEPT !.ticket_id = t] : t \in DOMAIN h}

HistoryCores ==
  [solution_type : {"self_service_link", "manual_steps"},
   confidence : {60, 90, 100}, estimated_time : {30}]

HistoryInputs ==
  UNION {{[i \in 1..n |->
             SolutionRecommendation(RankTitles[i], <<>>, c[i].solution_type,
                                    c[i].confidence, c[i].estimated_time)]
           : c \in [1..n -> HistoryCores]} : n \in 0..MaxSols}

\* enhanced_solutions = await self._enhance_with_history(ai_solutions, ...)
EnhanceWithHistory ==
  /\ ksPc = "history"
  /\ ksOut' = _enhance_with_history(ksIn, ksClass, resolutions)
  /\ ksPc' = "enhanced"
  /\ UNCHANGED <<ksClass, ksContext, ksLookup, ksIn>>
  /\ UNCHANGED <<fbVars, clVars, arVars, chVars, rrVars, lnVars, inVars, skVars>>

InitHistory ==
  /\ ksPc = "history"
  /\ ksClass \in [category : {"VPN"}]
  /\ ksContext = <<>>
  /\ ksLookup = "pending"
  /\ ksIn \in HistoryInputs
  /\ ksOut = <<>>
  /\ \E h \in Histories : resolutions = HistoryOf(h)
  /\ articles = <<>>
  /\ articles0 = <<>>
  /\ rrPc = [p \in Procs |-> "idle"]
  /\ rrArgs = [p \in Procs |-> None]
  /\ rrLocal = [p \in Procs |-> None]
  /\ rrInserted = [p \in Procs |-> FALSE]
  /\ rrRet = [p \in Procs |-> None]
  /\ rrOverlap = FALSE
  /\ fbText = <<>>
  /\ fbApiUp = TRUE
  /\ FbIdle /\ ClIdle /\ ArIdle /\ ChIdle /\ LnIdle /\ InIdle /\ SkIdle

NextHistory == EnhanceWithHistory

SpecHistory == InitHistory /\ [][NextHistory]_vars

NoSuccessInCategory ==
  \A r \in resolutions :
    ~(r.classified_category = ksClass.category /\ r.resolved_successfully)

\* C15: with no successful record for the category in the history, the
\* reweighting returns every candidate with its confidence and estimated
\* time unchanged.
C15_EmptyHistoryNoChange ==
  (ksPc = "enhanced" /\ NoSuccessInCategory) =>
    /\ Len(ksOut) = Len(ksIn)
    /\ \A i \in 1..Len(ksIn) :
         /\ ksOut[i].confidence = ksIn[i].confidence
         /\ ksOut[i].estimated_time = ksIn[i].estimated_time

\* the history holds a failed record of the category and a successful one
\* of another category, both by the method of a candidate
C15_Witness ==
  /\ ksPc = "enhanced"
  /\ NoSuccessInCategory
  /\ ksIn # <<>>
  /\ \E r \in resolutions :
       /\ r.classified_category = ksClass.category
       /\ r.resolution_method = ksIn[1].solution_type
  /\ \E r \in resolutions :
       /\ r.classified_category # ksClass.category
       /\ r.resolved_successfully
       /\ r.resolution_method = ksIn[1].solution_type
  /\ ksOut = ksIn

-----------------------------------------------------------------------------
(* KnowledgeBaseService._adjust_for_user_context.  The caller context is a *)
(* dict: a function from the keys it holds to texts.                       *)

technical_roles ==
  <<<<"i","t">>, <<"d","e","v","e","l","o","p","e","r">>,
    <<"e","n","g","i","n","e","e","r">>,
    <<"t","e","c","h","n","i","c","a","l">>, <<"a","d","m","i","n">>>>

non_technical_roles ==
  <<<<"m","a","n","a","g","e","r">>,
    <<"e","x","e","c","u","t","i","v","e">>, <<"h","r">>,
    <<"f","i","n","a","n","c","e">>, <<"s","a","l","e","s">>>>

\* any(role in user_role for role in roles)
AnyRoleIn(roles, user_role) ==
  \E i \in 1..Len(roles) : IsSubstr(roles[i], user_role)

ContextBonus == 10

\* a bonus without the cap at 1.0
BoostUncapped(solution) ==
  [solution EXCEPT !.confidence = solution.confidence + ContextBonus]

\* solution.confidence = min(1.0, solution.confidence + 0.1)
Boost(solution) ==
  [solution EXCEPT
     !.confidence = Min(100, solution.confidence + ContextBonus)]

\* the loop body of _adjust_for_user_context for one solution
AdjustOne(solution, user_role, user_department, user_location) ==
  LET title == Lower(solution.title)
      description == Lower(solution.description)
      s1 == IF AnyRoleIn(technical_roles, user_role)
            THEN IF \/ IsSubstr(<<"t","e","c","h","n","i","c","a","l">>, title)
                    \/ IsSubstr(<<"a","d","v","a","n","c","e","d">>, title)
                 THEN Boost(solution) ELSE solution
            ELSE IF AnyRoleIn(non_technical_roles, user_role)
            THEN IF \/ IsSubstr(<<"s","i","m","p","l","e">>, title)
                    \/ IsSubstr(<<"b","a","s","i","c">>, title)
                 THEN Boost(solution) ELSE solution
            ELSE solution
      s2 == IF \/ IsSubstr(user_department, title)
               \/ IsSubstr(user_department, description)
            THEN Boost(s1) ELSE s1
  IN IF \/ IsSubstr(user_location, title)
        \/ IsSubstr(user_location, description)
     THEN Boost(s2) ELSE s2

\* user_context.get(key, "").lower() for each key, then the loop
_adjust_for_user_context(solutions, user_context) ==
  LET user_role == Lower(DictGet(user_context, "role", <<>>))
      user_department == Lower(DictGet(user_context, "department", <<>>))
      user_location == Lower(DictGet(user_context, "location", <<>>))
  IN [i \in 1..Len(solutions) |->
        AdjustOne(solutions[i], user_role, user_department, user_location)]

\* non-empty contexts: find_solutions skips the stage for an empty one
UserContexts ==
  {[k \in keys |-> full[k]] :
     full \in [role : {<<"M","a","n","a","g","e","r">>, <<"I","T">>},
               department : {<<"F","i","n","a","n","c","e">>},
               location : {<<"M","u","m","b","a","i">>}],
     keys \in (SUBSET {"role", "department", "location"}) \ {{}}}

ContextTitles ==
  {<<"S","i","m","p","l","e">>,
   <<"F","i","n","a","n","c","e">> \o <<" ">> \o <<"V","P","N">>}

ContextDescriptions ==
  {<<>>, <<"m","u","m","b","a","i">>}

ContextInputs ==
  UNION {[1..n -> {SolutionRecommendation(t, d, "manual_steps", c, 30) :
                     t \in ContextTitles, d \in ContextDescriptions,
                     c \in {70, 95}}] : n \in 0..MaxSols}

\* if user_context: enhanced_solutions = self._adjust_for_user_context(...)
AdjustForUserContext ==
  /\ ksPc = "context"
  /\ ksOut' = _adjust_for_user_context(ksIn, ksContext)
  /\ ksPc' = "adjusted"
  /\ UNCHANGED <<ksClass, ksContext, ksLookup, ksIn>>
  /\ UNCHANGED <<fbVars, clVars, arVars, chVars, rrVars, lnVars, inVars, skVars>>

InitContext ==
  /\ ksPc = "context"
  /\ ksClass = Pending
  /\ ksContext \in UserContexts
  /\ ksLookup = "pending"
  /\ ksIn \in ContextInputs
  /\ ksOut = <<>>
  /\ fbText = <<>>
  /\ fbApiUp = TRUE
  /\ FbIdle /\ ClIdle /\ ArIdle /\ ChIdle /\ RrIdle /\ LnIdle /\ InIdle /\ SkIdle

NextContext == AdjustForUserContext

SpecContext == InitContext /\ [][NextContext]_vars

\* the context supplies the key and its text occurs in the candidate's
\* title or description
SuppliedAndOccurs(key, solution) ==
  /\ key \in DOMAIN ksContext
  /\ \/ IsSubstr(Lower(ksContext[key]), Lower(solution.title))
     \/ IsSubstr(Lower(ksContext[key]), Lower(solution.description))

\* the most a candidate may gain: the role bonus, plus one bonus for a
\* supplied and occurring department, plus one for such a location
AllowedGain(solution) ==
  ContextBonus
    + (IF SuppliedAndOccurs("department", solution) THEN ContextBonus ELSE 0)
    + (IF SuppliedAndOccurs("location", solution) THEN ContextBonus ELSE 0)

\* C16: a candidate gains the department (location) bonus only if the
\* context supplies a department (location) that occurs in its title or
\* description; a context without the two keys gives neither bonus.
C16_ContextBonusOnlyWhenSupplied ==
  ksPc = "adjusted" =>
    \A i \in 1..Len(ksIn) :
      ksOut[i].confidence <= ksIn[i].confidence + AllowedGain(ksIn[i])

-----------------------------------------------------------------------------
(* KnowledgeBaseService.find_solutions, one step per await.                *)
(*   ksLookup  how the knowledge-store lookup ended                        *)
(*   ksIn      the candidates as the stages hand them on                   *)
(*   ksOut     the list find_solutions returned                            *)

\* fallback_solutions of _get_fallback_solutions, with its default
_get_fallback_solutions(classification) ==
  IF classification.category = "Password"
  THEN <<SolutionRecommendation(
           <<"S","e","l","f","-","S","e","r","v","i","c","e"," ","P","a",
             "s","s","w","o","r","d"," ","R","e","s","e","t">>,
           <<"U","s","e"," ","P","O","W","E","R","G","R","I","D","'","s",
             " ","s","e","l","f","-","s","e","r","v","i","c","e"," ","p",
             "o","r","t","a","l"," ","t","o"," ","r","e","s","e","t"," ",
             "y","o","u","r"," ","p","a","s","s","w","o","r","d">>,
           "self_service_link", 80, 5)>>
  ELSE IF classification.category = "VPN"
  THEN <<SolutionRecommendation(
           <<"V","P","N"," ","C","o","n","n","e","c","t","i","o","n"," ",
             "T","r","o","u","b","l","e","s","h","o","o","t","i","n","g">>,
           <<"B","a","s","i","c"," ","s","t","e","p","s"," ","t","o"," ",
             "r","e","s","o","l","v","e"," ","V","P","N"," ","c","o","n",
             "n","e","c","t","i","v","i","t","y"," ","i","s","s","u","e",
             "s">>,
           "manual_steps", 70, 15)>>
  ELSE <<SolutionRecommendation(
           <<"C","o","n","t","a","c","t"," ","I","T"," ","S","u","p","p",
             "o","r","t">>,
           <<"T","h","i","s"," ","i","s","s","u","e"," ","r","e","q","u",
             "i","r","e","s"," ","m","a","n","u","a","l"," ","a","s","s",
             "i","s","t","a","n","c","e"," ","f","r","o","m"," ","I","T",
             " ","s","u","p","p","o","r","t"," ","t","e","a","m">>,
           "escalation_required", 50, 60)>>

\* What the solution call of the external classifier comes to: the call or
\* the parsing raised, or the parsed list of recommendations.
AiSolutionOutcomes ==
  {[kind |-> "failed", solutions |-> <<>>]}
    \cup
  [kind : {"ok"},
   solutions :
     {<<>>,
      <<SolutionRecommendation(<<"R","e","s","e","t">>, <<>>,
                               "self_service_link", 95, 5)>>,
      <<SolutionRecommendation(<<"S","o","l","u","t","i","o","n">>, <<>>,
                               "escalation_required", 90, 30),
        SolutionRecommendation(<<"R","e","s","e","t">>, <<>>,
                               "self_service_link", 90, 200)>>}]

\* generate_solution: every failure of the call or of the parsing ends in
\* _get_fallback_solutions
generate_solution(classification, outcome) ==
  IF outcome.kind = "ok" THEN outcome.solutions
  ELSE _get_fallback_solutions(classification)

\* _apply_collaborative_filtering: the successful resolutions of the similar
\* tickets boost the candidates whose title occurs in the title of the
\* solution they used, once per such resolution
RECURSIVE BoostTimes(_, _)
BoostTimes(solution, times) ==
  IF times = 0 THEN solution
  ELSE BoostTimes(
         [solution EXCEPT
            !.confidence = Min(100, solution.confidence + 15)],
         times - 1)

_apply_collaborative_filtering(solutions, similar_tickets, history) ==
  LET similar_resolutions ==
        {r \in history :
           /\ \E i \in 1..Len(similar_tickets) : r.ticket_id = similar_tickets[i]
           /\ r.resolved_successfully}
      hits(solution) ==
        {r \in similar_resolutions :
           /\ r.solution_used # Absent
           /\ IsSubstr(Lower(solution.title), Lower(r.solution_used[1]))}
  IN [i \in 1..Len(solutions) |->
        BoostTimes(solutions[i], Cardinality(hits(solutions[i])))]

FindClassifications ==
  [category : {"Password", "VPN", "Weather"},
   priority : {"Medium", "High"},
   similar_tickets : {<<>>, <<"TICKET-1234", "TICKET-5678">>}]

FindContexts ==
  {<<>>, [role |-> <<"I","T">>],
   [department |-> <<"v","p","n">>, location |-> <<"D","e","l","h","i">>]}

FindHistories ==
  {HistoryOf(h) :
     h \in [{"TICKET-1234"} ->
              TicketResolutions({"T1"}, {"VPN"}, {"manual_steps"}, BOOLEAN,
                                {45}, {None}, {<<>>}, {Absent})]}
    \cup {{}}

\* the except clause of find_solutions: log and return []
FindExcept ==
  /\ ksOut' = <<>>
  /\ ksPc' = "returned"

\* kb_articles = await self._find_relevant_articles(...); the articles only
\* feed the prompt of the solution call
FsLookup ==
  /\ ksPc = "lookup"
  /\ \E ok \in BOOLEAN :
       IF ok
       THEN /\ ksLookup' = "ok"
            /\ ksPc' = "generate"
            /\ UNCHANGED ksOut
       ELSE /\ ksLookup' = "failed"
            /\ FindExcept
  /\ UNCHANGED <<ksClass, ksContext, ksIn>>
  /\ UNCHANGED <<fbVars, clVars, arVars, chVars, rrVars, lnVars, inVars, skVars>>

\* ai_solutions = await gemini_service.generate_solution(...)
FsGenerate ==
  /\ ksPc = "generate"
  /\ \E outcome \in AiSolutionOutcomes :
       ksIn' = generate_solution(ksClass, outcome)
  /\ ksPc' = "history"
  /\ UNCHANGED <<ksClass, ksContext, ksLookup, ksOut>>
  /\ UNCHANGED <<fbVars, clVars, arVars, chVars, rrVars, lnVars, inVars, skVars>>

\* enhanced_solutions = await self._enhance_with_history(...); a failing
\* read of the history raises into the except clause
FsHistory ==
  /\ ksPc = "history"
  /\ \E ok \in BOOLEAN :
       IF ok
       THEN /\ ksIn' = _enhance_with_history(ksIn, ksClass, resolutions)
            /\ ksPc' = "collaborative"
            /\ UNCHANGED ksOut
       ELSE FindExcept /\ UNCHANGED ksIn
  /\ UNCHANGED <<ksClass, ksContext, ksLookup>>
  /\ UNCHANGED <<fbVars, clVars, arVars, chVars, rrVars, lnVars, inVars, skVars>>

\* if classification.similar_tickets: await
\* self._apply_collaborative_filtering(...), which returns the candidates
\* as they are when its reads fail
FsCollaborative ==
  /\ ksPc = "collaborative"
  /\ \E ok \in BOOLEAN :
       ksIn' = IF ksClass.similar_tickets # <<>> /\ ok
               THEN _apply_collaborative_filtering(
                      ksIn, ksClass.similar_tickets, resolutions)
               ELSE ksIn
  /\ ksPc' = "context"
  /\ UNCHANGED <<ksClass, ksContext, ksLookup, ksOut>>
  /\ UNCHANGED <<fbVars, clVars, arVars, chVars, rrVars, lnVars, inVars, skVars>>

\* if user_context: _adjust_for_user_context(...); then
\* return self._rank_solutions(enhanced_solutions, classification)
FsAdjustAndRank ==
  /\ ksPc = "context"
  /\ LET adjusted == IF ksContext # <<>>
                     THEN _adjust_for_user_context(ksIn, ksContext)
                     ELSE ksIn
     IN /\ ksIn' = adjusted
        /\ ksOut' = _rank_solutions(adjusted, ksClass)
  /\ ksPc' = "returned"
  /\ UNCHANGED <<ksClass, ksContext, ksLookup>>
  /\ UNCHANGED <<fbVars, clVars, arVars, chVars, rrVars, lnVars, inVars, skVars>>

InitFind ==
  /\ ksPc = "lookup"
  /\ ksClass \in FindClassifications
  /\ ksContext \in FindContexts
  /\ ksLookup = "pending"
  /\ ksIn = <<>>
  /\ ksOut = <<>>
  /\ resolutions \in FindHistories
  /\ articles = <<>>
  /\ articles0 = <<>>
  /\ rrPc = [p \in Procs |-> "idle"]
  /\ rrArgs = [p \in Procs |-> None]
  /\ rrLocal = [p \in Procs |-> None]
  /\ rrInserted = [p \in Procs |-> FALSE]
  /\ rrRet = [p \in Procs |-> None]
  /\ rrOverlap = FALSE
  /\ fbText = <<>>
  /\ fbApiUp = TRUE
  /\ FbIdle /\ ClIdle /\ ArIdle /\ ChIdle /\ LnIdle /\ InIdle /\ SkIdle

NextFind ==
  \/ FsLookup
  \/ FsGenerate
  \/ FsHistory
  \/ FsCollaborative
  \/ FsAdjustAndRank

SpecFind == InitFind /\ [][NextFind]_vars

\* C17: when the knowledge-store lookup fails, find_solutions still returns
\* at least one candidate (the generated ones or the fixed fallback ones).
C17_LookupFailureStillRanks ==
  (ksPc = "returned" /\ ksLookup = "failed") => Len(ksOut) >= 1

-----------------------------------------------------------------------------
(* KnowledgeBaseService._learn_from_resolution and the helpers it calls,   *)
(* under record_resolution calls made one after another.                   *)
(*   patterns   the store of CommonIssuePattern documents                  *)
(*   lnArgs     the TicketResolution of the call in progress               *)
(*   lnOutcome  what the learning of the last call did: article is what    *)
(*              became of the article step, samples the number of          *)
(*              resolutions the pattern step read (-1 when not reached)    *)

\* the characters \w matches
WordChars ==
  DOMAIN LowerOf \cup {LowerOf[c] : c \in DOMAIN LowerOf}
    \cup {"0", "1", "2", "3", "4", "5", "6", "7", "8", "9", "_"}

\* re.findall(r'\w+', text): the maximal runs of word characters, in order
RECURSIVE FindAllWords(_, _, _)
FindAllWords(text, i, current) ==
  IF i > Len(text)
  THEN IF current = <<>> THEN <<>> ELSE <<current>>
  ELSE IF text[i] \in WordChars
  THEN FindAllWords(text, i + 1, Append(current, text[i]))
  ELSE (IF current = <<>> THEN <<>> ELSE <<current>>)
         \o FindAllWords(text, i + 1, <<>>)

\* set(re.findall(r'\w+', text.lower()))
WordSet(text) ==
  LET words == FindAllWords(Lower(text), 1, <<>>)
  IN {words[i] : i \in 1..Len(words)}

\* _calculate_text_similarity(text1, text2) > 0.7, the similarity being 0.0
\* for a text without words and len(intersection) / len(union) otherwise
IsSimilar(text1, text2) ==
  LET words1 == WordSet(text1)
      words2 == WordSet(text2)
  IN /\ words1 # {}
     /\ words2 # {}
     /\ 10 * Cardinality(words1 \cap words2)
          > 7 * Cardinality(words1 \cup words2)

\* _solution_exists(article, solution_text)
_solution_exists(article, solution_text) ==
  \E i \in 1..Len(article.solutions) :
    /\ article.solutions[i] # <<>>
    /\ solution_text # <<>>
    /\ IsSimilar(article.solutions[i], solution_text)

\* the members of the enum SolutionType
SolutionTypeNames ==
  {"MANUAL_STEPS", "AUTOMATED_SCRIPT", "ESCALATION_REQUIRED",
   "SELF_SERVICE_LINK", "KNOWLEDGE_ARTICLE"}

\* the exception a step ended with
Raised == [raised |-> TRUE]

\* an article step that appends whatever the article holds already
LearnedArticleAlways(article, resolution) ==
  [article EXCEPT !.solutions = Append(@, resolution.actual_solution[1])]

\* Lines 416-426 on an existing article: nothing for a similar solution;
\* else Solution(..., solution_type=SolutionType.MANUAL, ...) is built and
\* appended.  SolutionType has no member MANUAL, so building it raises
\* AttributeError.
LearnedArticle(article, resolution) ==
  IF _solution_exists(article, resolution.actual_solution[1])
  THEN article
  ELSE IF "MANUAL" \in SolutionTypeNames
  THEN [article EXCEPT !.solutions = Append(@, resolution.actual_solution[1])]
  ELSE Raised

\* _create_article_from_resolution: the article it inserts, or the
\* exception it catches and logs (the same SolutionType.MANUAL)
CreatedArticle(resolution) ==
  IF "MANUAL" \in SolutionTypeNames
  THEN [category |-> resolution.classified_category,
        subcategory |-> resolution.classified_subcategory,
        solutions |-> <<resolution.actual_solution[1]>>,
        total_attempts |-> 0,
        success_resolutions |-> 0,
        primary_success_rate |-> Some(<<0, 1>>)]
  ELSE Raised

\* the fields CommonIssuePattern requires, and the keywords
\* _identify_common_patterns passes to it
CommonIssuePatternRequired == {"pattern", "category", "confidence"}

PatternKeywords ==
  {"category", "subcategory", "pattern", "frequency", "avg_resolution_time",
   "common_solutions"}

MinPatternSamples == 5

\* the resolutions _identify_common_patterns reads
SimilarResolutions(resolution, history) ==
  {r \in history :
     /\ r.classified_category = resolution.classified_category
     /\ r.resolved_successfully}

\* Counter(all_words)[w]
RECURSIVE WordCount(_, _)
WordCount(w, records) ==
  IF records = {} THEN 0
  ELSE LET r == CHOOSE x \in records : TRUE
           words == FindAllWords(Lower(r.original_query), 1, <<>>)
       IN Cardinality({i \in 1..Len(words) : words[i] = w})
            + WordCount(w, records \ {r})

\* The words of common_words: those counted at least three times.  The
\* queries below hold fewer than ten different words, so most_common(10)
\* drops none; a pattern is kept as this set of words.
CommonWords(records) ==
  {w \in UNION {WordSet(r.original_query) : r \in records} :
     WordCount(w, records) >= 3}

\* a pattern step without the sample threshold and without the model's
\* validation
MinedPatternsUnguarded(resolution, history, known) ==
  LET similar == SimilarResolutions(resolution, history)
      common_words == CommonWords(similar)
  IN IF common_words = {} THEN known
     ELSE known \cup {[category |-> resolution.classified_category,
                       subcategory |-> resolution.classified_subcategory,
                       pattern |-> common_words]}

\* _identify_common_patterns: the pattern store after it.  Fewer than five
\* successful resolutions of the category, no common word or a known
\* pattern end it early; else CommonIssuePattern(...) is built, which fails
\* validation when a required field is missing (caught and logged).
MinedPatterns(resolution, history, known) ==
  LET similar == SimilarResolutions(resolution, history)
      common_words == CommonWords(similar)
  IN IF Cardinality(similar) < MinPatternSamples THEN known
     ELSE IF common_words = {} THEN known
     ELSE IF \E p \in known : p.pattern = common_words THEN known
     ELSE IF CommonIssuePatternRequired \subseteq PatternKeywords
     THEN known \cup {[category |-> resolution.classified_category,
                       subcategory |-> resolution.classified_subcategory,
                       pattern |-> common_words]}
     ELSE known

\* most resolutions in the history before the first call
MaxHistory == 4

LearnTicketIds == {"T1", "T2"}

VpnQuery == <<"v","p","n"," ","d","o","w","n">>

PriorTicketIds == <<"H1", "H2", "H3", "H4", "H5", "H6">>

\* a history of k successful VPN resolutions, tickets H1..Hk
PriorHistory(k) ==
  {[ticket_id |-> PriorTicketIds[i],
    original_query |-> VpnQuery,
    classified_category |-> "VPN",
    classified_subcategory |-> Absent,
    resolution_method |-> "manual_resolution",
    knowledge_article_id |-> None,
    solution_used |-> Absent,
    resolved_successfully |-> TRUE,
    resolution_time_minutes |-> 10,
    actual_solution |-> Absent] : i \in 1..k}

StoredSolution == <<"r","e","s","t","a","r","t"," ","t","h","e"," ","v","p","n"," ","c","l","i","e","n","t"," ","n","o","w">>

NearSolution == <<"R","e","s","t","a","r","t"," ","t","h","e"," ","V","P","N"," ","c","l","i","e","n","t">>

OtherSolution == <<"r","e","b","o","o","t"," ","r","o","u","t","e","r">>

\* VPN resolutions of every outcome and solution text, and a successful
\* resolution of a category that has no article
LearnArgs ==
  TicketResolutions(LearnTicketIds, {"VPN"}, {"manual_resolution"}, BOOLEAN,
                    {10}, {None}, {VpnQuery},
                    {Absent, Some(NearSolution), Some(OtherSolution)})
    \cup
  TicketResolutions(LearnTicketIds, {"Email"}, {"manual_resolution"}, {TRUE},
                    {10}, {None}, {VpnQuery}, {Some(OtherSolution)})

LearnArticles ==
  {<<>>} \cup
  [{"A1"} -> KnowledgeArticles({0}, {0}, {Absent},
                               {<<>>, <<StoredSolution>>})]

\* record_resolution up to the learning call: the record is inserted
\* (ticket_id carries a unique index) and the statistics of an article that
\* was used with success are updated
LnRecord ==
  /\ lnPc = "idle"
  /\ \E a \in LearnArgs, ok \in BOOLEAN :
       /\ lnArgs' = a
       /\ IF ok /\ \A r \in resolutions : r.ticket_id # a.ticket_id
          THEN /\ resolutions' = resolutions \cup {a}
               /\ articles' =
                    IF /\ a.knowledge_article_id # None
                       /\ a.resolved_successfully
                       /\ a.knowledge_article_id \in DOMAIN articles
                    THEN [articles EXCEPT
                            ![a.knowledge_article_id] = BumpStats(@, TRUE)]
                    ELSE articles
               /\ lnPc' = "learn"
          ELSE /\ lnPc' = "idle"
               /\ UNCHANGED <<resolutions, articles>>
  /\ lnOutcome' = Pending
  /\ UNCHANGED <<patterns, articles0, rrPc, rrArgs, rrLocal, rrInserted, rrRet,
                 rrOverlap>>
  /\ UNCHANGED <<fbVars, clVars, arVars, chVars, ksVars, inVars, skVars>>

\* _learn_from_resolution up to the pattern step: return at once for a
\* failed resolution or one without actual_solution, else find the article
\* of the category and subcategory and update it, or create one.  An
\* exception of the update ends the learning in its except clause.
LnLearn ==
  /\ lnPc = "learn"
  /\ LET r == lnArgs
         existing == {a \in DOMAIN articles :
                        /\ articles[a].category = r.classified_category
                        /\ articles[a].subcategory = r.classified_subcategory}
     IN IF ~r.resolved_successfully \/ r.actual_solution = Absent
        THEN /\ lnOutcome' = [article |-> "skipped", samples |-> -1]
             /\ lnPc' = "idle"
             /\ UNCHANGED articles
        ELSE IF existing # {}
        THEN LET a == CHOOSE x \in existing : TRUE
                 learned == LearnedArticle(articles[a], r)
             IN IF learned = Raised
                THEN /\ lnOutcome' = [article |-> "raised", samples |-> -1]
                     /\ lnPc' = "idle"
                     /\ UNCHANGED articles
                ELSE /\ lnOutcome' =
                          [article |-> IF learned = articles[a]
                                       THEN "duplicate" ELSE "appended",
                           samples |-> -1]
                     /\ articles' = [articles EXCEPT ![a] = learned]
                     /\ lnPc' = "patterns"
        ELSE LET created == CreatedArticle(r)
             IN /\ IF created = Raised
                   THEN /\ lnOutcome' = [article |-> "not created", samples |-> -1]
                        /\ UNCHANGED articles
                   ELSE /\ lnOutcome' = [article |-> "created", samples |-> -1]
                        /\ articles' = articles @@ ("A2" :> created)
                /\ lnPc' = "patterns"
  /\ UNCHANGED <<patterns, lnArgs, articles0, resolutions, rrPc, rrArgs, rrLocal,
                 rrInserted, rrRet, rrOverlap>>
  /\ UNCHANGED <<fbVars, clVars, arVars, chVars, ksVars, inVars, skVars>>

\* await self._identify_common_patterns(resolution); then record_resolution
\* returns
LnPatterns ==
  /\ lnPc = "patterns"
  /\ patterns' = MinedPatterns(lnArgs, resolutions, patterns)
  /\ lnOutcome' =
       [lnOutcome EXCEPT
          !.samples = Cardinality(SimilarResolutions(lnArgs, resolutions))]
  /\ lnPc' = "idle"
  /\ UNCHANGED <<lnArgs, articles, articles0, resolutions, rrPc, rrArgs, rrLocal,
                 rrInserted, rrRet, rrOverlap>>
  /\ UNCHANGED <<fbVars, clVars, arVars, chVars, ksVars, inVars, skVars>>

InitLearn ==
  /\ patterns = {}
  /\ lnPc = "idle"
  /\ lnArgs = Pending
  /\ lnOutcome = Pending
  /\ articles \in LearnArticles
  /\ articles0 = articles
  /\ \E k \in 0..MaxHistory : resolutions = PriorHistory(k)
  /\ rrPc = [p \in Procs |-> "idle"]
  /\ rrArgs = [p \in Procs |-> None]
  /\ rrLocal = [p \in Procs |-> None]
  /\ rrInserted = [p \in Procs |-> FALSE]
  /\ rrRet = [p \in Procs |-> None]
  /\ rrOverlap = FALSE
  /\ fbText = <<>>
  /\ fbApiUp = TRUE
  /\ FbIdle /\ ClIdle /\ ArIdle /\ ChIdle /\ KsIdle /\ InIdle /\ SkIdle

NextLearn == LnRecord \/ LnLearn \/ LnPatterns

SpecLearn == InitLearn /\ [][NextLearn]_vars

\* C18: on an article the learning found, a solution is appended only when
\* no solution already on the article has Jaccard similarity above 0.7
\* with it; a similar text leaves the solution list as it was.
C18_DuplicateSolutionSuppressed ==
  \A a \in DOMAIN articles0 :
    LET before == Len(articles0[a].solutions)
        now == articles[a].solutions
    IN /\ Len(now) >= before
       /\ \A j \in (before + 1)..Len(now) :
            \A i \in 1..(j - 1) : ~IsSimilar(now[i], now[j])

\* the learning met a text with four of the five words of the stored
\* solution and left the article alone
C18_Witness ==
  /\ lnPc = "idle"
  /\ lnOutcome # Pending
  /\ lnOutcome.article = "duplicate"
  /\ lnArgs.actual_solution = Some(NearSolution)
  /\ "A1" \in DOMAIN articles
  /\ articles["A1"].solutions = <<StoredSolution>>
  /\ articles = articles0

SuccessesOf(category) ==
  Cardinality({r \in resolutions :
                 r.classified_category = category /\ r.resolved_successfully})

\* C19: every pattern in the store belongs to a category with at least
\* five successful resolutions in the history.
C19_PatternNeedsFiveResolutions ==
  \A p \in patterns : SuccessesOf(p.category) >= MinPatternSamples

\* the pattern step read four successful resolutions with a common word
\* and stored nothing
C19_Witness ==
  /\ lnPc = "idle"
  /\ lnOutcome # Pending
  /\ lnOutcome.samples = MinPatternSamples - 1
  /\ CommonWords(SimilarResolutions(lnArgs, resolutions)) # {}
  /\ patterns = {}

\* C20: the history holds at most one record per ticket_id, and no step of
\* the knowledge service changes or removes a record: the history only
\* grows.
C20_HistoryAppendOnly ==
  /\ [](\A r1, r2 \in resolutions : r1.ticket_id = r2.ticket_id => r1 = r2)
  /\ [][resolutions \subseteq resolutions']_vars

\* a second call for a ticket that has its record was turned away by the
\* unique index, and the first record is still the only one
C20_Witness ==
  \E p, q \in Procs :
    /\ p # q
    /\ rrPc[p] = "done" /\ rrInserted[p]
    /\ rrPc[q] = "done" /\ ~rrInserted[q] /\ rrRet[q] = "raised"
    /\ rrArgs[p].ticket_id = rrArgs[q].ticket_id
    /\ rrArgs[p] # rrArgs[q]
    /\ resolutions = {rrArgs[p]}

-----------------------------------------------------------------------------
(* The chatbot intake stage by stage: classify_ticket one assignment at a  *)
(* time, then the stages of find_solutions, then the auto-resolution check *)
(* and the ticket creation.  The classification is one Python object that  *)
(* the intake passes on: clResult is the object inside classify_ticket,    *)
(* ksClass the argument of find_solutions, chClass the local variable of   *)
(* ingest_chatbot_query.                                                   *)

\* the assignments of classify_ticket after the parsing, in order, and the
\* position after the last one
EnrichmentOrder ==
  <<"sentiment", "similar", "assignee", "possibility", "estimate", "classified">>

\* classification = await self._<step>(classification, ...)
Enriched(step, classification, user_query) ==
  CASE step = "sentiment" ->
         _enhance_with_sentiment_analysis(classification, user_query)
    [] step = "similar" -> _find_similar_tickets(classification, user_query)
    [] step = "assignee" -> _suggest_assignee(classification)
    [] step = "possibility" ->
         _check_auto_resolution_possibility(classification, user_query)
    [] step = "estimate" -> _estimate_resolution_time(classification)

\* the call of the external classifier and the parsing; a failure outside
\* the parser's own except clause ends classify_ticket with the keyword
\* classification
PlParse ==
  /\ clPc = "parse"
  /\ IF clOutcome.kind \in {"call_failed", "unexpected_shape"}
     THEN /\ clResult' = _fallback_classification(clText)
          /\ clPc' = "classified"
     ELSE /\ clResult' = _parse_classification_response(clOutcome, clText)
          /\ clPc' = EnrichmentOrder[1]
  /\ UNCHANGED <<clText, clOutcome>>
  /\ UNCHANGED <<fbVars, arVars, chVars, rrVars, ksVars, lnVars, inVars, skVars>>

PlEnrich ==
  /\ \E i \in 1..(Len(EnrichmentOrder) - 1) :
       /\ clPc = EnrichmentOrder[i]
       /\ clResult' = Enriched(clPc, clResult, clText)
       /\ clPc' = EnrichmentOrder[i + 1]
  /\ UNCHANGED <<clText, clOutcome>>
  /\ UNCHANGED <<fbVars, arVars, chVars, rrVars, ksVars, lnVars, inVars, skVars>>

\* solutions = await knowledge_service.find_solutions(classification, ...)
PlCallFindSolutions ==
  /\ clPc = "classified"
  /\ ksPc = "idle"
  /\ ksClass' = clResult
  /\ ksPc' = "lookup"
  /\ UNCHANGED <<ksContext, ksLookup, ksIn, ksOut>>
  /\ UNCHANGED <<fbVars, clVars, arVars, chVars, rrVars, lnVars, inVars, skVars>>

\* find_solutions returned: the intake goes on to _check_auto_resolution
\* with the classification and the list; the parsed and the fallback
\* candidates of this model carry no automated action
PlFindSolutionsReturned ==
  /\ ksPc = "returned"
  /\ chPc = "idle"
  /\ chClass' = ksClass
  /\ chSolutions' =
       [i \in 1..Len(ksOut) |->
          [solution_type |-> ksOut[i].solution_type,
           confidence |-> ksOut[i].confidence,
           automated_action |-> None]]
  /\ chText' = clText
  /\ chStoreOk' \in BOOLEAN
  /\ chPc' = "auto"
  /\ UNCHANGED <<chAuto, chResult, tickets>>
  /\ UNCHANGED <<fbVars, clVars, arVars, rrVars, ksVars, lnVars, inVars, skVars>>

InitPipeline ==
  /\ clPc = "parse"
  /\ clText \in ChatTexts
  /\ clOutcome \in ApiOutcomes
  /\ clResult = None
  /\ ksContext \in FindContexts
  /\ ksPc = "idle"
  /\ ksClass = Pending
  /\ ksLookup = "pending"
  /\ ksIn = <<>>
  /\ ksOut = <<>>
  /\ resolutions \in FindHistories
  /\ articles = <<>>
  /\ articles0 = <<>>
  /\ rrPc = [p \in Procs |-> "idle"]
  /\ rrArgs = [p \in Procs |-> None]
  /\ rrLocal = [p \in Procs |-> None]
  /\ rrInserted = [p \in Procs |-> FALSE]
  /\ rrRet = [p \in Procs |-> None]
  /\ rrOverlap = FALSE
  /\ fbText = <<>>
  /\ fbApiUp = TRUE
  /\ FbIdle /\ ArIdle /\ ChIdle /\ LnIdle /\ InIdle /\ SkIdle

NextPipeline ==
  \/ PlParse
  \/ PlEnrich
  \/ PlCallFindSolutions
  \/ FsLookup
  \/ FsGenerate
  \/ FsHistory
  \/ FsCollaborative
  \/ FsAdjustAndRank
  \/ PlFindSolutionsReturned
  \/ ChCheckAuto
  \/ ChCreateFromClassification
  \/ ChCreateBasic

SpecPipeline == InitPipeline /\ [][NextPipeline]_vars

SameCategoryAndPriority(c, d) ==
  /\ c.category = d.category
  /\ c.priority = d.priority

\* C21: once the parser or the keyword classifier has produced the
\* classification, no step changes its category or its priority: the
\* enrichment steps leave both as they were, and the classification that
\* find_solutions, _check_auto_resolution and the ticket creation hold has
\* the category and the priority it was produced with.
C21_CategoryAndPriorityFrozen ==
  /\ [][clPc # "parse" => SameCategoryAndPriority(clResult', clResult)]_vars
  /\ [](ksClass # Pending => SameCategoryAndPriority(ksClass, clResult))
  /\ [](chClass # Pending => SameCategoryAndPriority(chClass, clResult))

\* a parsed classification went through every enrichment step, the ranking
\* stages and the check, and the intake ended with a ticket
C21_Witness ==
  /\ chPc = "done"
  /\ chResult.status = "ticket_created"
  /\ clOutcome.kind = "ok"
  /\ clResult.category = "Password"
  /\ clResult.priority = "Critical"
  /\ clResult.estimated_resolution_time = 7
  /\ Len(chSolutions) >= 1
  /\ chClass = clResult

-----------------------------------------------------------------------------
(* The source adapters of TicketIngestionService (ingest_from_web_form,    *)
(* ingest_from_email, ingest_from_glpi, ingest_from_solman), one step per  *)
(* await, for the intake calls in flight.                                  *)
(*   inClock   datetime.utcnow() in whole seconds                          *)
(*   inData    the payload of the call                                     *)
(*   inLocal   the local variables of the call, with the number of its     *)
(*             inserts the store accepted                                  *)
(*   inRet     the ticket the call returned, or Raised                     *)
(*   tickets   the ticket store, unique on ticket_number                   *)

\* latest reading of the clock, in seconds
MaxSecond == 1

\* str.upper() on one character
UpperChar(c) ==
  IF \E u \in DOMAIN LowerOf : LowerOf[u] = c
  THEN CHOOSE u \in DOMAIN LowerOf : LowerOf[u] = c
  ELSE c

\* str.upper()
RECURSIVE Upper(_)
Upper(s) ==
  IF Len(s) = 0 THEN <<>> ELSE <<UpperChar(Head(s))>> \o Upper(Tail(s))

\* category_mapping of _map_external_category, in the order of the dict
category_mapping ==
  <<
     <<<<"N","E","T","W","O","R","K">>, "network">>,
     <<<<"N","E","T","W","O","R","K","I","N","G">>, "network">>,
     <<<<"C","O","N","N","E","C","T","I","V","I","T","Y">>, "network">>,
     <<<<"H","A","R","D","W","A","R","E">>, "hardware">>,
     <<<<"E","Q","U","I","P","M","E","N","T">>, "hardware">>,
     <<<<"D","E","V","I","C","E">>, "hardware">>,
     <<<<"S","O","F","T","W","A","R","E">>, "software">>,
     <<<<"A","P","P","L","I","C","A","T","I","O","N">>, "software">>,
     <<<<"P","R","O","G","R","A","M">>, "software">>,
     <<<<"A","C","C","E","S","S">>, "access_control">>,
     <<<<"P","E","R","M","I","S","S","I","O","N">>, "access_control">>,
     <<<<"A","U","T","H","O","R","I","Z","A","T","I","O","N">>, "access_control">>,
     <<<<"E","M","A","I","L">>, "email">>,
     <<<<"M","A","I","L">>, "email">>,
     <<<<"V","P","N">>, "vpn">>,
     <<<<"R","E","M","O","T","E"," ","A","C","C","E","S","S">>, "vpn">>,
     <<<<"P","R","I","N","T","E","R">>, "printer">>,
     <<<<"P","R","I","N","T","I","N","G">>, "printer">>,
     <<<<"P","A","S","S","W","O","R","D">>, "password_reset">>,
     <<<<"R","E","S","E","T"," ","P","A","S","S","W","O","R","D">>, "password_reset">>,
     <<<<"A","C","C","O","U","N","T">>, "account_management">>,
     <<<<"U","S","E","R"," ","A","C","C","O","U","N","T">>, "account_management">>
  >>

\* a mapper in which the last entry whose key is contained wins
_map_external_category_last(external_category) ==
  LET scan[i \in 0..Len(category_mapping)] ==
        IF i = 0 THEN "other"
        ELSE IF IsSubstr(category_mapping[i][1], external_category)
        THEN category_mapping[i][2]
        ELSE scan[i - 1]
  IN scan[Len(category_mapping)]

\* for key, value in category_mapping.items(): if key in external_category:
\* return value; then TicketCategory.OTHER
_map_external_category(external_category) ==
  LET scan[i \in 1..(Len(category_mapping) + 1)] ==
        IF i > Len(category_mapping) THEN "other"
        ELSE IF IsSubstr(category_mapping[i][1], external_category)
        THEN category_mapping[i][2]
        ELSE scan[i + 1]
  IN scan[1]

\* A payload as the adapters read it.  The keys differ from source to
\* source (description, body, content, Description for the body), the
\* reading does not:
\*   has_body     the body key is there; body is then Absent for null
\*   optional     the title, the requester's id, email and name are there
\*   attachments  length of the attachments list
\*   category     the external category name, Absent when the key is missing
Payload(source, has_body, body, optional, attachments, category) ==
  [source |-> source, has_body |-> has_body, body |-> body,
   optional |-> optional, attachments |-> attachments, category |-> category]

BodyText == <<"v","p","n"," ","d","o","w","n">>

Payloads ==
  {Payload("web_form", TRUE, Some(BodyText), TRUE, 0, Absent),
   Payload("web_form", TRUE, Some(<<>>), FALSE, 0, Absent),
   Payload("web_form", FALSE, Absent, TRUE, 1, Absent),
   Payload("email", TRUE, Some(BodyText), FALSE, 1, Absent),
   Payload("email", TRUE, Absent, TRUE, 0, Absent),
   Payload("glpi", TRUE, Some(BodyText), FALSE, 0, Some(<<"R","e","m","o","t","e"," ","A","c","c","e","s","s">>)),
   Payload("glpi", FALSE, Absent, TRUE, 0, Absent),
   Payload("solman", TRUE, Some(BodyText), TRUE, 1, Some(<<"p","r","i","n","t","i","n","g">>)),
   Payload("solman", TRUE, Some(<<>>), TRUE, 0, Absent)}

\* the default of each adapter for a payload without the body key
DefaultDescription(source) ==
  IF source = "email" THEN <<"N","o"," ","C","o","n","t","e","n","t">>
  ELSE <<"N","o"," ","D","e","s","c","r","i","p","t","i","o","n">>

\* the dispatch of ingest_ticket, or a route calling the adapter
InCall(p) ==
  /\ inPc[p] = "idle"
  /\ \E data \in Payloads : inData' = [inData EXCEPT ![p] = data]
  /\ inPc' = [inPc EXCEPT ![p] = "extract"]
  /\ UNCHANGED <<inClock, inLocal, inRet>>
  /\ UNCHANGED <<fbVars, clVars, arVars, chVars, rrVars, ksVars, lnVars, skVars>>

\* the statements of the try block up to the first await: every field read
\* with .get and its default, and for GLPI and Solman
\* category = self._map_external_category(<name>.upper())
InExtract(p) ==
  /\ inPc[p] = "extract"
  /\ LET data == inData[p]
         name == IF data.category = Absent THEN <<>> ELSE data.category[1]
     IN inLocal' =
          [inLocal EXCEPT ![p] =
             [description |-> IF data.has_body THEN data.body
                              ELSE Some(DefaultDescription(data.source)),
              requester_email |->
                IF data.optional THEN <<"a","s","h","a","@","p","g",".","i","n">>
                ELSE <<"u","n","k","n","o","w","n","@","e","x","a","m","p","l","e",".","c","o","m">>,
              requester_name |->
                IF data.optional THEN <<"A","s","h","a">>
                ELSE <<"U","n","k","n","o","w","n"," ","U","s","e","r">>,
              category |-> IF data.source \in {"glpi", "solman"}
                           THEN _map_external_category(Upper(name))
                           ELSE None,
              classification |-> Pending,
              ticket_number |-> Absent,
              inserted |-> 0]]
  /\ inPc' = [inPc EXCEPT ![p] = "classify"]
  /\ UNCHANGED <<inClock, inData, inRet>>
  /\ UNCHANGED <<fbVars, clVars, arVars, chVars, rrVars, ksVars, lnVars, skVars>>

\* classification = await gemini_service.classify_ticket(description); on a
\* null description the keyword classifier raises on user_query.lower(),
\* the enrichment steps swallow the same error
InClassify(p) ==
  /\ inPc[p] = "classify"
  /\ \E response \in {[kind |-> "call_failed"],
                      [kind |-> "ok", category |-> "Password",
                       subcategory |-> Absent, priority |-> "Critical",
                       confidence |-> Some(85)]} :
       LET description == inLocal[p].description
       IN IF description = Absent /\ response.kind # "ok"
          THEN /\ inPc' = [inPc EXCEPT ![p] = "except"]
               /\ UNCHANGED inLocal
          ELSE /\ inLocal' =
                    [inLocal EXCEPT ![p].classification =
                       classify_ticket(
                         IF description = Absent THEN <<>> ELSE description[1],
                         response)]
               /\ inPc' = [inPc EXCEPT ![p] = "create"]
  /\ UNCHANGED <<inClock, inData, inRet>>
  /\ UNCHANGED <<fbVars, clVars, arVars, chVars, rrVars, ksVars, lnVars, skVars>>

\* whether ticket.insert() passes the unique index on ticket_number
Insertable(ticket) ==
  \A t \in tickets : t.ticket_number # ticket.ticket_number

\* The rest of the try block.  At "create":
\* ticket = await self._create_ticket_from_classification(...), where the
\* number is the clock reading, then priority and SLA hours, then
\* AIAnalysis(...), which the module has not imported; with it, Ticket(...)
\* and the insert.  At "attach": the attachments loop, whose body builds
\* Attachment(...), a name the module has not imported either, and
\* await ticket.save().
InCreateAndSave(p) ==
  /\ inPc[p] \in {"create", "attach"}
  /\ LET local == inLocal[p]
         priority == DictGet(priority_mapping, local.classification.priority,
                             "medium")
         sla_config == sla_times[priority]
         ticket ==
           [ticket_number |-> inClock,
            requester_email |-> local.requester_email,
            requester_name |-> local.requester_name] @@
           Ticket(Cardinality(tickets) + 1, local.description[1], priority,
                  "other", inData[p].source,
                  SLAInfo(sla_config.response, sla_config.resolution), inClock)
     IN IF inPc[p] = "create"
        THEN IF "AIAnalysis" \in ImportedTicketNames /\ local.description # Absent
             THEN IF Insertable(ticket)
                  THEN /\ tickets' = tickets \cup {ticket}
                       /\ inLocal' =
                            [inLocal EXCEPT ![p].ticket_number = Some(inClock),
                                            ![p].inserted = @ + 1]
                       /\ inPc' = [inPc EXCEPT ![p] = "attach"]
                       /\ UNCHANGED inRet
                  ELSE /\ inLocal' =
                            [inLocal EXCEPT ![p].ticket_number = Some(inClock)]
                       /\ inPc' = [inPc EXCEPT ![p] = "except"]
                       /\ UNCHANGED <<tickets, inRet>>
             ELSE /\ inPc' = [inPc EXCEPT ![p] = "except"]
                  /\ UNCHANGED <<tickets, inLocal, inRet>>
        ELSE IF inData[p].attachments > 0 /\ "Attachment" \notin ImportedTicketNames
        THEN /\ inPc' = [inPc EXCEPT ![p] = "except"]
             /\ UNCHANGED <<tickets, inLocal, inRet>>
        ELSE /\ inPc' = [inPc EXCEPT ![p] = "done"]
             /\ inRet' = [inRet EXCEPT ![p] =
                            [ticket_number |-> local.ticket_number[1]]]
             /\ UNCHANGED <<tickets, inLocal>>
  /\ UNCHANGED <<inClock, inData>>
  /\ UNCHANGED <<chPc, chText, chStoreOk, chClass, chSolutions, chAuto, chResult>>
  /\ UNCHANGED <<fbVars, clVars, arVars, rrVars, ksVars, lnVars, skVars>>

\* the except clause: return await self._create_basic_ticket(description,
\* ...).  len(user_query) raises on a null description and a rejected
\* insert raises too, both out of the adapter.
InExcept(p) ==
  /\ inPc[p] = "except"
  /\ LET local == inLocal[p]
         ticket ==
           [ticket_number |-> inClock,
            requester_email |-> local.requester_email,
            requester_name |-> local.requester_name] @@
           Ticket(Cardinality(tickets) + 1, local.description[1], "medium",
                  "other", inData[p].source,
                  SLAInfo(DefaultResponseTime, DefaultResolutionTime), inClock)
     IN IF local.description = Absent
        THEN /\ inRet' = [inRet EXCEPT ![p] = Raised]
             /\ UNCHANGED <<tickets, inLocal>>
        ELSE IF Insertable(ticket)
        THEN /\ tickets' = tickets \cup {ticket}
             /\ inLocal' = [inLocal EXCEPT ![p].ticket_number = Some(inClock),
                                           ![p].inserted = @ + 1]
             /\ inRet' = [inRet EXCEPT ![p] = [ticket_number |-> inClock]]
        ELSE /\ inLocal' = [inLocal EXCEPT ![p].ticket_number = Some(inClock)]
             /\ inRet' = [inRet EXCEPT ![p] = Raised]
             /\ UNCHANGED tickets
  /\ inPc' = [inPc EXCEPT ![p] = "done"]
  /\ UNCHANGED <<inClock, inData>>
  /\ UNCHANGED <<chPc, chText, chStoreOk, chClass, chSolutions, chAuto, chResult>>
  /\ UNCHANGED <<fbVars, clVars, arVars, rrVars, ksVars, lnVars, skVars>>

\* a second passes
InTick ==
  /\ inClock < MaxSecond
  /\ inClock' = inClock + 1
  /\ UNCHANGED <<inPc, inData, inLocal, inRet>>
  /\ UNCHANGED <<fbVars, clVars, arVars, chVars, rrVars, ksVars, lnVars, skVars>>

InitAdapters ==
  /\ fbText = <<>>
  /\ fbApiUp = TRUE
  /\ FbIdle /\ ClIdle /\ ArIdle /\ ChIdle /\ RrIdle /\ KsIdle /\ LnIdle /\ InIdle /\ SkIdle

NextAdapters ==
  \/ \E p \in Intakes : InCall(p)
  \/ \E p \in Intakes : InExtract(p)
  \/ \E p \in Intakes : InClassify(p)
  \/ \E p \in Intakes : InCreateAndSave(p)
  \/ \E p \in Intakes : InExcept(p)
  \/ InTick

SpecAdapters == InitAdapters /\ [][NextAdapters]_vars

\* The adapters of GLPI and Solman on every external category name: the
\* keys of the table in upper and in lower case, and names with no key,
\* with two keys and with none at all.
MapperNames ==
  {category_mapping[i][1] : i \in 1..Len(category_mapping)}
    \cup {Lower(category_mapping[i][1]) : i \in 1..Len(category_mapping)}
    \cup {<<"V","p","n"," ","N","e","t","w","o","r","k">>,
          <<"t","e","l","e","p","h","o","n","y">>,
          <<>>}

InitMapper ==
  /\ inClock = 0
  /\ inPc = [p \in Intakes |-> IF p = 1 THEN "extract" ELSE "idle"]
  /\ \E source \in {"glpi", "solman"}, category \in {Absent} \cup {Some(n) : n \in MapperNames} :
       inData = [p \in Intakes |->
                   IF p = 1
                   THEN Payload(source, TRUE, Some(BodyText), TRUE, 0, category)
                   ELSE Pending]
  /\ inLocal = [p \in Intakes |-> Pending]
  /\ inRet = [p \in Intakes |-> Pending]
  /\ fbText = <<>>
  /\ fbApiUp = TRUE
  /\ FbIdle /\ ClIdle /\ ArIdle /\ ChIdle /\ RrIdle /\ KsIdle /\ LnIdle /\ SkIdle

NextMapper == \E p \in Intakes : InExtract(p)

SpecMapper == InitMapper /\ [][NextMapper]_vars

\* the external category name of a payload, '' when the key is missing
ExternalName(data) == IF data.category = Absent THEN <<>> ELSE data.category[1]

\* the calls that have computed their category
Mapped == {p \in Intakes : inLocal[p] # Pending /\ inLocal[p].category # None}

\* the entries of the table whose key is contained in the name, letter case
\* aside
ContainedKeys(name) ==
  {i \in 1..Len(category_mapping) :
     IsSubstr(Lower(category_mapping[i][1]), Lower(name))}

C29_EveryKeyMapsToItsValue ==
  \A p \in Mapped :
    \A i \in 1..Len(category_mapping) :
      Upper(ExternalName(inData[p])) = category_mapping[i][1]
        => inLocal[p].category = category_mapping[i][2]

\* the payload has the body key with a non-empty text
HasBody(data) ==
  /\ data.has_body
  /\ data.body # Absent
  /\ data.body[1] # <<>>

\* C23: every ticket an adapter stores has a non-empty body and its source;
\* a payload whose body is missing or empty ends in an error and not in a
\* ticket; a payload that has its body is not rejected for the optional
\* fields it lacks (stated for a call that runs alone).
C23_BodyRequired ==
  /\ \A t \in tickets :
       /\ t.description # <<>>
       /\ t.source \in {"web_form", "email", "glpi", "solman"}
  /\ \A p \in Intakes :
       (inPc[p] = "done" /\ ~HasBody(inData[p])) => inRet[p] = Raised
  /\ \A p \in Intakes :
       (/\ inPc[p] = "done"
        /\ HasBody(inData[p])
        /\ \A q \in Intakes \ {p} : inPc[q] = "idle")
         => inRet[p] # Raised

\* C24: the tickets that two intake calls build never carry the same ticket
\* number, also when both are built within one second.
C24_DistinctTicketNumbers ==
  \A p, q \in Intakes :
    (/\ p # q
     /\ inLocal[p] # Pending /\ inLocal[p].ticket_number # Absent
     /\ inLocal[q] # Pending /\ inLocal[q].ticket_number # Absent)
      => inLocal[p].ticket_number # inLocal[q].ticket_number

FromFallback == clOutcome.kind # "ok"

-----------------------------------------------------------------------------
(* The three stages of find_solutions that rewrite confidences, run one     *)
(* after the other on candidates of every confidence from 0 to 1, with a   *)
(* history and a caller context that make every bonus apply.               *)

ConfidenceTitle == <<"A","d","v","a","n","c","e","d"," ","V","P","N"," ","D","e","l","h","i">>

ConfidenceCores ==
  [title : {ConfidenceTitle, <<"R","e","s","e","t">>},
   solution_type : {"manual_steps", "escalation_required"},
   confidence : {0, 50, 90, 100}]

ConfidenceInputs ==
  UNION {{[i \in 1..n |->
             SolutionRecommendation(c[i].title, <<>>, c[i].solution_type,
                                    c[i].confidence, 30)]
           : c \in [1..n -> ConfidenceCores]} : n \in 1..MaxSols}

\* a caller context whose role, department and location all occur in
\* ConfidenceTitle
ConfidenceContexts ==
  FindContexts \cup
    {[role |-> <<"I","T">>, department |-> <<"v","p","n">>,
      location |-> <<"D","e","l","h","i">>]}

\* successful resolutions of the two similar tickets, by the method of a
\* candidate and with a solution whose title holds ConfidenceTitle
ConfidenceHistories ==
  SUBSET
    {[r EXCEPT !.solution_used = Some(ConfidenceTitle \o <<" ","f","i","x">>)] :
       r \in TicketResolutions({"TICKET-1234", "TICKET-5678"}, {"VPN"},
                               {"manual_steps"}, {TRUE}, {45}, {None},
                               {<<>>}, {Absent})}

InitConfidence ==
  /\ ksPc = "history"
  /\ ksClass \in [category : {"VPN"}, priority : {"Medium"},
                  similar_tickets : {<<"TICKET-1234", "TICKET-5678">>}]
  /\ ksContext \in ConfidenceContexts
  /\ ksLookup = "ok"
  /\ ksIn \in ConfidenceInputs
  /\ ksOut = <<>>
  /\ resolutions \in ConfidenceHistories
  /\ articles = <<>>
  /\ articles0 = <<>>
  /\ rrPc = [p \in Procs |-> "idle"]
  /\ rrArgs = [p \in Procs |-> None]
  /\ rrLocal = [p \in Procs |-> None]
  /\ rrInserted = [p \in Procs |-> FALSE]
  /\ rrRet = [p \in Procs |-> None]
  /\ rrOverlap = FALSE
  /\ fbText = <<>>
  /\ fbApiUp = TRUE
  /\ FbIdle /\ ClIdle /\ ArIdle /\ ChIdle /\ LnIdle /\ InIdle /\ SkIdle

NextConfidence ==
  \/ FsHistory
  \/ FsCollaborative
  \/ FsAdjustAndRank

SpecConfidence == InitConfidence /\ [][NextConfidence]_vars

\* C27: candidates that enter the stages with a confidence in [0, 1] have a
\* confidence in [0, 1] after the historical reweighting, after the
\* collaborative boost and after the context adjustment, however many
\* bonuses add up.
C27_ConfidenceStaysInRange ==
  /\ \A i \in 1..Len(ksIn) : ksIn[i].confidence \in 0..100
  /\ \A i \in 1..Len(ksOut) : ksOut[i].confidence \in 0..100

\* two similar resolutions and a context with three matching entries: five
\* bonuses on top of the historical reweighting, and the confidence is 1.0
C27_Witness ==
  /\ ksPc = "returned"
  /\ Cardinality(resolutions) = 2
  /\ DOMAIN ksContext = {"role", "department", "location"}
  /\ ksOut # <<>>
  /\ ksOut[1].title = ConfidenceTitle
  /\ ksOut[1].solution_type = "manual_steps"
  /\ ksOut[1].confidence = 100

\* C28: the historical reweighting never lowers a confidence.
C28_HistoryNeverLowers ==
  ksPc = "enhanced" =>
    \A i \in 1..Len(ksIn) : ksOut[i].confidence >= ksIn[i].confidence

-----------------------------------------------------------------------------
(* The socket service.  Its two module-level dicts are kept as the         *)
(* sequences of their <<key, value>> items in insertion order, which is    *)
(* the order in which disconnect walks them:                               *)
(*   active_connections   user_id -> sid                                   *)
(*   ticket_rooms         ticket_id -> set of user_ids                     *)
(*   skEvent              the last event handled                           *)
(* Handlers run one at a time; connect, send_message, mark_message_read    *)
(* and typing do not touch the dicts.                                      *)

\* what the clients send: data.get(...) is None for a missing key
SocketData ==
  [sid : {"s1", "s2"},
   ticket_id : {"t1", "t2", None},
   user_id : {"u1", "u2", None}]

\* key in d
DictHas(d, key) == \E i \in 1..Len(d) : d[i][1] = key

\* d[key] = value
DictAssign(d, key, value) ==
  IF DictHas(d, key)
  THEN [i \in 1..Len(d) |-> IF d[i][1] = key THEN <<key, value>> ELSE d[i]]
  ELSE Append(d, <<key, value>>)

\* del d[key]
DictDelete(d, key) == SelectSeq(d, LAMBDA item : item[1] # key)

\* The loop of disconnect over ticket_rooms.items(): the user is discarded
\* from room after room; the first room left empty is deleted, and the
\* next step of the iteration over the dict that has changed size raises
\* RuntimeError, so the rooms after it are not reached.
DisconnectedRooms(rooms, user_id) ==
  LET emptied == {i \in 1..Len(rooms) : rooms[i][2] \ {user_id} = {}}
      stop == IF emptied = {} THEN Len(rooms) + 1
              ELSE CHOOSE i \in emptied : \A j \in emptied : i <= j
      walked == [i \in 1..Len(rooms) |->
                   IF i < stop THEN <<rooms[i][1], rooms[i][2] \ {user_id}>>
                   ELSE rooms[i]]
  IN IF stop > Len(rooms) THEN walked
     ELSE DictDelete(walked, rooms[stop][1])

\* join_ticket(sid, data)
SkJoinTicket ==
  /\ \E data \in SocketData :
       /\ skEvent' = [event |-> "join_ticket", sid |-> data.sid,
                      user_id |-> data.user_id]
       /\ IF data.ticket_id = None \/ data.user_id = None
          THEN UNCHANGED <<active_connections, ticket_rooms>>
          ELSE /\ active_connections' =
                    DictAssign(active_connections, data.user_id, data.sid)
               /\ ticket_rooms' =
                    LET members ==
                          IF DictHas(ticket_rooms, data.ticket_id)
                          THEN (CHOOSE item \in {ticket_rooms[i] : i \in 1..Len(ticket_rooms)} :
                                  item[1] = data.ticket_id)[2]
                          ELSE {}
                    IN DictAssign(ticket_rooms, data.ticket_id,
                                  members \cup {data.user_id})
  /\ UNCHANGED <<fbVars, clVars, arVars, chVars, rrVars, ksVars, lnVars, inVars>>

\* leave_ticket(sid, data)
SkLeaveTicket ==
  /\ \E data \in SocketData :
       /\ skEvent' = [event |-> "leave_ticket", sid |-> data.sid,
                      user_id |-> data.user_id]
       /\ IF data.ticket_id # None /\ DictHas(ticket_rooms, data.ticket_id)
          THEN LET members ==
                     (CHOOSE item \in {ticket_rooms[i] : i \in 1..Len(ticket_rooms)} :
                        item[1] = data.ticket_id)[2] \ {data.user_id}
               IN ticket_rooms' =
                    IF members = {}
                    THEN DictDelete(ticket_rooms, data.ticket_id)
                    ELSE DictAssign(ticket_rooms, data.ticket_id, members)
          ELSE UNCHANGED ticket_rooms
  /\ UNCHANGED active_connections
  /\ UNCHANGED <<fbVars, clVars, arVars, chVars, rrVars, ksVars, lnVars, inVars>>

\* disconnect(sid): user_id is the first user registered with the sid
SkDisconnect ==
  /\ \E sid \in {data.sid : data \in SocketData} :
       LET registered == {i \in 1..Len(active_connections) :
                            active_connections[i][2] = sid}
           user_id ==
             IF registered = {} THEN None
             ELSE active_connections[
                    CHOOSE i \in registered : \A j \in registered : i <= j][1]
       IN /\ skEvent' = [event |-> "disconnect", sid |-> sid,
                         user_id |-> user_id]
          /\ IF user_id = None
             THEN UNCHANGED <<active_connections, ticket_rooms>>
             ELSE /\ active_connections' = DictDelete(active_connections, user_id)
                  /\ ticket_rooms' = DisconnectedRooms(ticket_rooms, user_id)
  /\ UNCHANGED <<fbVars, clVars, arVars, chVars, rrVars, ksVars, lnVars, inVars>>

InitSocket ==
  /\ fbText = <<>>
  /\ fbApiUp = TRUE
  /\ FbIdle /\ ClIdle /\ ArIdle /\ ChIdle /\ RrIdle /\ KsIdle /\ LnIdle /\ InIdle /\ SkIdle

NextSocket ==
  \/ SkJoinTicket
  \/ SkLeaveTicket
  \/ SkDisconnect

SpecSocket == InitSocket /\ [][NextSocket]_vars

\* C30: after the disconnect of the connection a user is registered with,
\* the user is not in active_connections and in no ticket room, and no room
\* is empty, however many rooms the user had joined.
C30_DisconnectLeavesNoTrace ==
  (/\ skEvent # Pending
   /\ skEvent.event = "disconnect"
   /\ skEvent.user_id # None)
    => /\ ~DictHas(active_connections, skEvent.user_id)
       /\ \A i \in 1..Len(ticket_rooms) :
            /\ skEvent.user_id \notin ticket_rooms[i][2]
            /\ ticket_rooms[i][2] # {}

====
